---- MODULE Spec2Model ----
(***************************************************************************)
(* Model of the CSV uploader (CSVUploader: parseCSV, readCSVRow,           *)
(* parseCSVLine, handleFileChange, handleClear) and of the table           *)
(* (CSVTable: sort, pagination, column visibility) of                      *)
(* src/components/csv-table.tsx.                                           *)
(*                                                                         *)
(* A JavaScript string is modelled as the sequence of its characters, each *)
(* character a one-character TLA+ string.  JavaScript indices are kept     *)
(* 0-based in the state; element k of a JavaScript array is element k+1 of *)
(* the sequence that models it.                                            *)
(*                                                                         *)
(* The specifications share the variables:                                 *)
(*   SpecLine   the character scan of parseCSVLine over one line           *)
(*   SpecParse  the row loop of parseCSV over one text                     *)
(*   Spec       the uploader and the table as the user drives them         *)
(*   SpecFair   Spec with every pending file read eventually settling      *)
(*   SpecTable  the table over one Dataset, as the user drives it          *)
(***************************************************************************)
EXTENDS Integers, Sequences, FiniteSets, TLC

VARIABLES
    \* parseCSVLine: the line scanned and the locals of its loop
    tokLine, tokI, current, insideQuotes, result, tokPc,
    \* parseCSV: the text parsed and the locals of its loop
    text, lines, headers, rows, rowI, parsePc,
    \* CSVUploader state and the uploads suspended in `await file.text()`
    csvData, loading, error, pending,
    \* CSVTable state (meaningful while the table is mounted, csvData # null)
    sortConfig, currentPage, rowsPerPage, visibleColumns

tokVars   == <<tokLine, tokI, current, insideQuotes, result, tokPc>>
parseVars == <<text, lines, headers, rows, rowI, parsePc>>
upVars    == <<csvData, loading, error, pending>>
tableVars == <<sortConfig, currentPage, rowsPerPage, visibleColumns>>
vars      == <<tokVars, parseVars, upVars, tableVars>>

-----------------------------------------------------------------------------
(* Characters and strings *)

DQ == "\""
NL == "\n"
SP == " "
Delimiter == ";"

\* the value of line[i + 1] past the end of the string
Undefined == "undefined"

\* null, as the value of csvData, of sortConfig and of error
NoData == [null |-> TRUE]
NoSort == [null |-> TRUE]
NoError == "null"

\* A character above U+00FF is written as its code point, e.g. "U+2028", and
\* so is the grave accent U+0060, which a string here cannot hold.
GraveAccent == "U+0060"
VT == ""
NBSP == " "

\* The white space and line terminators String.prototype.trim removes:
\* TAB, LF, VT, FF, CR, SP, NBSP, the other space separators (Zs), LS, PS, BOM
WhiteSpace ==
    {" ", "\n", "\t", "\r", "\f", VT, NBSP,
     "U+1680", "U+2000", "U+2001", "U+2002", "U+2003", "U+2004", "U+2005",
     "U+2006", "U+2007", "U+2008", "U+2009", "U+200A", "U+2028", "U+2029",
     "U+202F", "U+205F", "U+3000", "U+FEFF"}

RECURSIVE trimStart(_)
trimStart(s) ==
    IF s # <<>> /\ Head(s) \in WhiteSpace THEN trimStart(Tail(s)) ELSE s

RECURSIVE trimEnd(_)
trimEnd(s) ==
    IF s # <<>> /\ s[Len(s)] \in WhiteSpace
    THEN trimEnd(SubSeq(s, 1, Len(s) - 1))
    ELSE s

trim(s) == trimEnd(trimStart(s))

\* String.prototype.split("\n"): always at least one element.
RECURSIVE splitLoop(_, _, _)
splitLoop(s, sep, acc) ==
    IF s = <<>> THEN <<acc>>
    ELSE IF Head(s) = sep THEN <<acc>> \o splitLoop(Tail(s), sep, <<>>)
    ELSE splitLoop(Tail(s), sep, Append(acc, Head(s)))

split(s, sep) == splitLoop(s, sep, <<>>)

-----------------------------------------------------------------------------
(* parseCSVLine *)

TokState(i, cur, inside, res) ==
    [i |-> i, current |-> cur, insideQuotes |-> inside, result |-> res]

\* parseCSVLineStep with the escaped quote not skipped (the i++ of line 347 lost)
parseCSVLineStep_NoSkip(ln, delimiter, st) ==
    LET char     == ln[st.i + 1]
        nextChar == IF st.i + 2 <= Len(ln) THEN ln[st.i + 2] ELSE Undefined
    IN  IF char = DQ
        THEN IF st.insideQuotes /\ nextChar = DQ
             THEN [st EXCEPT !.current = @ \o <<DQ>>, !.i = @ + 1]
             ELSE [st EXCEPT !.insideQuotes = ~@, !.i = @ + 1]
        ELSE IF char = delimiter /\ ~st.insideQuotes
             THEN [st EXCEPT !.result = Append(@, trim(st.current)),
                             !.current = <<>>, !.i = @ + 1]
             ELSE [st EXCEPT !.current = @ \o <<char>>, !.i = @ + 1]

\* One iteration of the for loop, i < line.length.
parseCSVLineStep(ln, delimiter, st) ==
    LET char     == ln[st.i + 1]
        nextChar == IF st.i + 2 <= Len(ln) THEN ln[st.i + 2] ELSE Undefined
    IN  IF char = DQ
        THEN IF st.insideQuotes /\ nextChar = DQ
             THEN [st EXCEPT !.current = @ \o <<DQ>>, !.i = @ + 2]
             ELSE [st EXCEPT !.insideQuotes = ~@, !.i = @ + 1]
        ELSE IF char = delimiter /\ ~st.insideQuotes
             THEN [st EXCEPT !.result = Append(@, trim(st.current)),
                             !.current = <<>>, !.i = @ + 1]
             ELSE [st EXCEPT !.current = @ \o <<char>>, !.i = @ + 1]

\* After the loop: result.push(current.trim()); return result
parseCSVLineEnd(st) == Append(st.result, trim(st.current))

RECURSIVE parseCSVLineLoop(_, _, _)
parseCSVLineLoop(ln, delimiter, st) ==
    IF st.i < Len(ln)
    THEN parseCSVLineLoop(ln, delimiter, parseCSVLineStep(ln, delimiter, st))
    ELSE parseCSVLineEnd(st)

parseCSVLine(ln, delimiter) ==
    parseCSVLineLoop(ln, delimiter, TokState(0, <<>>, FALSE, <<>>))

-----------------------------------------------------------------------------
(* readCSVRow *)

\* for (let i = 0; i < line.length; i++) if (line[i] === '"') quoteCount++
RECURSIVE quoteCount(_)
quoteCount(s) ==
    IF s = <<>> THEN 0
    ELSE (IF Head(s) = DQ THEN 1 ELSE 0) + quoteCount(Tail(s))

\* a loop that counts the quotes of the last raw line only, not of the
\* accumulated line
RECURSIVE readCSVRowLoop_LastLineOnly(_, _, _)
readCSVRowLoop_LastLineOnly(lns, ln, index) ==
    IF quoteCount(lns[index]) % 2 = 1 /\ index < Len(lns)
    THEN readCSVRowLoop_LastLineOnly(lns, ln \o <<NL>> \o lns[index + 1], index + 1)
    ELSE [line |-> ln, nextIndex |-> index]

\* The while loop: `ln` is the accumulated line, `index` the next raw line.
RECURSIVE readCSVRowLoop(_, _, _)
readCSVRowLoop(lns, ln, index) ==
    IF quoteCount(ln) % 2 = 1 /\ index < Len(lns)
    THEN readCSVRowLoop(lns, ln \o <<NL>> \o lns[index + 1], index + 1)
    ELSE [line |-> ln, nextIndex |-> index]

readCSVRow(lns, startIndex, delimiter) ==
    readCSVRowLoop(lns, lns[startIndex + 1], startIndex + 1)

-----------------------------------------------------------------------------
(* parseCSV *)

EmptyObject == [k \in {} |-> <<>>]

\* The name of the accessor Object.prototype.__proto__
ProtoKey == <<"_", "_", "p", "r", "o", "t", "o", "_", "_">>

\* The names of the methods every object inherits from Object.prototype
ObjectPrototypeMethods ==
    {<<"c", "o", "n", "s", "t", "r", "u", "c", "t", "o", "r">>,
     <<"_", "_", "d", "e", "f", "i", "n", "e", "G", "e", "t", "t", "e", "r", "_", "_">>,
     <<"_", "_", "d", "e", "f", "i", "n", "e", "S", "e", "t", "t", "e", "r", "_", "_">>,
     <<"h", "a", "s", "O", "w", "n", "P", "r", "o", "p", "e", "r", "t", "y">>,
     <<"_", "_", "l", "o", "o", "k", "u", "p", "G", "e", "t", "t", "e", "r", "_", "_">>,
     <<"_", "_", "l", "o", "o", "k", "u", "p", "S", "e", "t", "t", "e", "r", "_", "_">>,
     <<"i", "s", "P", "r", "o", "t", "o", "t", "y", "p", "e", "O", "f">>,
     <<"p", "r", "o", "p", "e", "r", "t", "y", "I", "s", "E", "n", "u", "m", "e", "r", "a", "b", "l", "e">>,
     <<"t", "o", "S", "t", "r", "i", "n", "g">>,
     <<"v", "a", "l", "u", "e", "O", "f">>,
     <<"t", "o", "L", "o", "c", "a", "l", "e", "S", "t", "r", "i", "n", "g">>}

\* row[header] = value, value a string, on an object made by {}: adds the key
\* or overwrites it; the setter of __proto__ ignores a string and adds no key
SetKey(row, key, value) ==
    IF key = ProtoKey THEN row
    ELSE [k \in DOMAIN row \cup {key} |-> IF k = key THEN value ELSE row[k]]

\* undefined, as what reading a property that is not there gives
NoProperty == [undefined |-> TRUE]

\* row[key], read on an object made by {}: the string of an own key, else
\* what Object.prototype gives (itself for __proto__, a function for a method
\* name), else undefined
GetKey(row, key) ==
    IF key \in DOMAIN row THEN [string |-> row[key]]
    ELSE IF key = ProtoKey THEN [object |-> "Object.prototype"]
    ELSE IF key \in ObjectPrototypeMethods THEN [function |-> key]
    ELSE NoProperty

\* values[index] || "" : undefined past the end, and "" itself, give ""
ValueOrEmpty(values, index) ==
    IF index + 1 <= Len(values) THEN values[index + 1] ELSE <<>>

\* headers.forEach((header, index) => { row[header] = values[index] || "" })
RECURSIVE buildRow(_, _, _, _)
buildRow(hdrs, values, index, row) ==
    IF index < Len(hdrs)
    THEN buildRow(hdrs, values, index + 1,
                  SetKey(row, hdrs[index + 1], ValueOrEmpty(values, index)))
    ELSE row

\* Object.values(row).some((v) => v.trim())
someValueNonBlank(row) == \E k \in DOMAIN row : trim(row[k]) # <<>>

\* One iteration of `while (i < lines.length)`: the new rows and the new i.
parseCSVIteration(lns, hdrs, rws, i) ==
    LET read     == readCSVRow(lns, i, Delimiter)
        fullLine == read.line
        values   == parseCSVLine(fullLine, Delimiter)
        row      == buildRow(hdrs, values, 0, EmptyObject)
    IN  IF trim(fullLine) = <<>>
        THEN [rows |-> rws, i |-> read.nextIndex]
        ELSE IF someValueNonBlank(row)
             THEN [rows |-> Append(rws, row), i |-> read.nextIndex]
             ELSE [rows |-> rws, i |-> read.nextIndex]

RECURSIVE parseCSVLoop(_, _, _, _)
parseCSVLoop(lns, hdrs, rws, i) ==
    IF i < Len(lns)
    THEN LET it == parseCSVIteration(lns, hdrs, rws, i)
         IN  parseCSVLoop(lns, hdrs, it.rows, it.i)
    ELSE rws

EmptyFileMessage == "CSV file is empty"

Thrown(message) == [thrown |-> message]

IsThrown(r) == "thrown" \in DOMAIN r

\* A CSVData value, or the Error thrown.
parseCSV(txt) ==
    LET lns == split(txt, NL)
    IN  IF Len(lns) = 0
        THEN Thrown(EmptyFileMessage)
        ELSE LET hdrs == parseCSVLine(lns[1], Delimiter)
             IN  [headers |-> hdrs, rows |-> parseCSVLoop(lns, hdrs, <<>>, 1)]

-----------------------------------------------------------------------------
(* CSVTable: the sorted rows, the pages, the handlers' state updates *)

UpperCase == <<"A", "B", "C", "D", "E", "F", "G", "H", "I", "J", "K", "L", "M",
               "N", "O", "P", "Q", "R", "S", "T", "U", "V", "W", "X", "Y", "Z">>

LowerCase == <<"a", "b", "c", "d", "e", "f", "g", "h", "i", "j", "k", "l", "m",
               "n", "o", "p", "q", "r", "s", "t", "u", "v", "w", "x", "y", "z">>

\* The upper-case letters of Latin-1 and their lower-case letters
UpperCaseLatin1 ==
    <<"À", "Á", "Â", "Ã", "Ä", "Å", "Æ", "Ç", "È", "É", "Ê", "Ë", "Ì", "Í",
      "Î", "Ï", "Ð", "Ñ", "Ò", "Ó", "Ô", "Õ", "Ö", "Ø", "Ù", "Ú", "Û", "Ü",
      "Ý", "Þ">>

LowerCaseLatin1 ==
    <<"à", "á", "â", "ã", "ä", "å", "æ", "ç", "è", "é", "ê", "ë", "ì", "í",
      "î", "ï", "ð", "ñ", "ò", "ó", "ô", "õ", "ö", "ø", "ù", "ú", "û", "ü",
      "ý", "þ">>

SoftHyphen == "­"

HexDigits ==
    <<"0", "1", "2", "3", "4", "5", "6", "7", "8", "9", "A", "B", "C", "D", "E", "F">>

HexValue ==
    [h \in {HexDigits[k] : k \in 1..16} |-> (CHOOSE k \in 1..16 : HexDigits[k] = h) - 1]
    @@ <<>>

\* whether the character is written as its code, "U+XXXX"
IsWrittenAsCode(c) == Len(c) = 6

\* the code of a character written as its code
CodeOf(c) ==
    HexValue[SubSeq(c, 3, 3)] * 4096 + HexValue[SubSeq(c, 4, 4)] * 256
        + HexValue[SubSeq(c, 5, 5)] * 16 + HexValue[SubSeq(c, 6, 6)]

\* the code unit n as it is written here
CodeUnit(n) ==
    "U+" \o HexDigits[(n \div 4096) + 1] \o HexDigits[((n \div 256) % 16) + 1]
         \o HexDigits[((n \div 16) % 16) + 1] \o HexDigits[(n % 16) + 1]

\* A character above U+FFFF is a pair of code units, the first of U+D800 to
\* U+DBFF, the second of U+DC00 to U+DFFF
IsHighSurrogate(c) == IsWrittenAsCode(c) /\ CodeOf(c) \in \HD800..\HDBFF
IsLowSurrogate(c) == IsWrittenAsCode(c) /\ CodeOf(c) \in \HDC00..\HDFFF

\* the code units of the character of code cp
unitsOf(cp) ==
    IF cp > \HFFFF
    THEN <<CodeUnit(\HD800 + ((cp - \H10000) \div 1024)),
           CodeUnit(\HDC00 + ((cp - \H10000) % 1024))>>
    ELSE <<CodeUnit(cp)>>

\* whether the code is in one of the ranges <<first, last>>
InRanges(cp, ranges) == \E r \in ranges : cp >= r[1] /\ cp <= r[2]

\* The case data below are those of Unicode 15 (ICU 72), with what Unicode 16
\* and 17 change: the letters of Garay and Beria Erfe and the Latin and
\* Cyrillic letters they add, with their lower case; the marks and modifier
\* letters they add; U+0295, not a cased letter any more, and U+1171E, not
\* passed over any more.

\* The characters above U+00FF that toLowerCase changes whatever stands around
\* them, into one character above U+00FF: <<first, last, step, n>> is each
\* character from first to last by step, changed into the one n further
\* (the lower-case mappings of UnicodeData.txt)
LowerCaseRanges ==
    {
      <<\H0100, \H012E, 2, 1>>, <<\H0132, \H0136, 2, 1>>,
      <<\H0139, \H0147, 2, 1>>, <<\H014A, \H0176, 2, 1>>,
      <<\H0179, \H017D, 2, 1>>, <<\H0181, \H0181, 1, 210>>,
      <<\H0182, \H0184, 2, 1>>, <<\H0186, \H0186, 1, 206>>,
      <<\H0187, \H0187, 1, 1>>, <<\H0189, \H018A, 1, 205>>,
      <<\H018B, \H018B, 1, 1>>, <<\H018E, \H018E, 1, 79>>,
      <<\H018F, \H018F, 1, 202>>, <<\H0190, \H0190, 1, 203>>,
      <<\H0191, \H0191, 1, 1>>, <<\H0193, \H0193, 1, 205>>,
      <<\H0194, \H0194, 1, 207>>, <<\H0196, \H0196, 1, 211>>,
      <<\H0197, \H0197, 1, 209>>, <<\H0198, \H0198, 1, 1>>,
      <<\H019C, \H019C, 1, 211>>, <<\H019D, \H019D, 1, 213>>,
      <<\H019F, \H019F, 1, 214>>, <<\H01A0, \H01A4, 2, 1>>,
      <<\H01A6, \H01A6, 1, 218>>, <<\H01A7, \H01A7, 1, 1>>,
      <<\H01A9, \H01A9, 1, 218>>, <<\H01AC, \H01AC, 1, 1>>,
      <<\H01AE, \H01AE, 1, 218>>, <<\H01AF, \H01AF, 1, 1>>,
      <<\H01B1, \H01B2, 1, 217>>, <<\H01B3, \H01B5, 2, 1>>,
      <<\H01B7, \H01B7, 1, 219>>, <<\H01B8, \H01B8, 1, 1>>,
      <<\H01BC, \H01BC, 1, 1>>, <<\H01C4, \H01C4, 1, 2>>,
      <<\H01C5, \H01C5, 1, 1>>, <<\H01C7, \H01C7, 1, 2>>,
      <<\H01C8, \H01C8, 1, 1>>, <<\H01CA, \H01CA, 1, 2>>,
      <<\H01CB, \H01DB, 2, 1>>, <<\H01DE, \H01EE, 2, 1>>,
      <<\H01F1, \H01F1, 1, 2>>, <<\H01F2, \H01F4, 2, 1>>,
      <<\H01F6, \H01F6, 1, -97>>, <<\H01F7, \H01F7, 1, -56>>,
      <<\H01F8, \H021E, 2, 1>>, <<\H0220, \H0220, 1, -130>>,
      <<\H0222, \H0232, 2, 1>>, <<\H023A, \H023A, 1, 10795>>,
      <<\H023B, \H023B, 1, 1>>, <<\H023D, \H023D, 1, -163>>,
      <<\H023E, \H023E, 1, 10792>>, <<\H0241, \H0241, 1, 1>>,
      <<\H0243, \H0243, 1, -195>>, <<\H0244, \H0244, 1, 69>>,
      <<\H0245, \H0245, 1, 71>>, <<\H0246, \H024E, 2, 1>>,
      <<\H0370, \H0372, 2, 1>>, <<\H0376, \H0376, 1, 1>>,
      <<\H037F, \H037F, 1, 116>>, <<\H0386, \H0386, 1, 38>>,
      <<\H0388, \H038A, 1, 37>>, <<\H038C, \H038C, 1, 64>>,
      <<\H038E, \H038F, 1, 63>>, <<\H0391, \H03A1, 1, 32>>,
      <<\H03A4, \H03AB, 1, 32>>, <<\H03CF, \H03CF, 1, 8>>,
      <<\H03D8, \H03EE, 2, 1>>, <<\H03F4, \H03F4, 1, -60>>,
      <<\H03F7, \H03F7, 1, 1>>, <<\H03F9, \H03F9, 1, -7>>,
      <<\H03FA, \H03FA, 1, 1>>, <<\H03FD, \H03FF, 1, -130>>,
      <<\H0400, \H040F, 1, 80>>, <<\H0410, \H042F, 1, 32>>,
      <<\H0460, \H0480, 2, 1>>, <<\H048A, \H04BE, 2, 1>>,
      <<\H04C0, \H04C0, 1, 15>>, <<\H04C1, \H04CD, 2, 1>>,
      <<\H04D0, \H052E, 2, 1>>, <<\H0531, \H0556, 1, 48>>,
      <<\H10A0, \H10C5, 1, 7264>>, <<\H10C7, \H10C7, 1, 7264>>,
      <<\H10CD, \H10CD, 1, 7264>>, <<\H13A0, \H13EF, 1, 38864>>,
      <<\H13F0, \H13F5, 1, 8>>, <<\H1C89, \H1C89, 1, 1>>,
      <<\H1C90, \H1CBA, 1, -3008>>, <<\H1CBD, \H1CBF, 1, -3008>>,
      <<\H1E00, \H1E94, 2, 1>>, <<\H1EA0, \H1EFE, 2, 1>>,
      <<\H1F08, \H1F0F, 1, -8>>, <<\H1F18, \H1F1D, 1, -8>>,
      <<\H1F28, \H1F2F, 1, -8>>, <<\H1F38, \H1F3F, 1, -8>>,
      <<\H1F48, \H1F4D, 1, -8>>, <<\H1F59, \H1F5F, 2, -8>>,
      <<\H1F68, \H1F6F, 1, -8>>, <<\H1F88, \H1F8F, 1, -8>>,
      <<\H1F98, \H1F9F, 1, -8>>, <<\H1FA8, \H1FAF, 1, -8>>,
      <<\H1FB8, \H1FB9, 1, -8>>, <<\H1FBA, \H1FBB, 1, -74>>,
      <<\H1FBC, \H1FBC, 1, -9>>, <<\H1FC8, \H1FCB, 1, -86>>,
      <<\H1FCC, \H1FCC, 1, -9>>, <<\H1FD8, \H1FD9, 1, -8>>,
      <<\H1FDA, \H1FDB, 1, -100>>, <<\H1FE8, \H1FE9, 1, -8>>,
      <<\H1FEA, \H1FEB, 1, -112>>, <<\H1FEC, \H1FEC, 1, -7>>,
      <<\H1FF8, \H1FF9, 1, -128>>, <<\H1FFA, \H1FFB, 1, -126>>,
      <<\H1FFC, \H1FFC, 1, -9>>, <<\H2126, \H2126, 1, -7517>>,
      <<\H2132, \H2132, 1, 28>>, <<\H2160, \H216F, 1, 16>>,
      <<\H2183, \H2183, 1, 1>>, <<\H24B6, \H24CF, 1, 26>>,
      <<\H2C00, \H2C2F, 1, 48>>, <<\H2C60, \H2C60, 1, 1>>,
      <<\H2C62, \H2C62, 1, -10743>>, <<\H2C63, \H2C63, 1, -3814>>,
      <<\H2C64, \H2C64, 1, -10727>>, <<\H2C67, \H2C6B, 2, 1>>,
      <<\H2C6D, \H2C6D, 1, -10780>>, <<\H2C6E, \H2C6E, 1, -10749>>,
      <<\H2C6F, \H2C6F, 1, -10783>>, <<\H2C70, \H2C70, 1, -10782>>,
      <<\H2C72, \H2C72, 1, 1>>, <<\H2C75, \H2C75, 1, 1>>,
      <<\H2C7E, \H2C7F, 1, -10815>>, <<\H2C80, \H2CE2, 2, 1>>,
      <<\H2CEB, \H2CED, 2, 1>>, <<\H2CF2, \H2CF2, 1, 1>>,
      <<\HA640, \HA66C, 2, 1>>, <<\HA680, \HA69A, 2, 1>>,
      <<\HA722, \HA72E, 2, 1>>, <<\HA732, \HA76E, 2, 1>>,
      <<\HA779, \HA77B, 2, 1>>, <<\HA77D, \HA77D, 1, -35332>>,
      <<\HA77E, \HA786, 2, 1>>, <<\HA78B, \HA78B, 1, 1>>,
      <<\HA78D, \HA78D, 1, -42280>>, <<\HA790, \HA792, 2, 1>>,
      <<\HA796, \HA7A8, 2, 1>>, <<\HA7AA, \HA7AA, 1, -42308>>,
      <<\HA7AB, \HA7AB, 1, -42319>>, <<\HA7AC, \HA7AC, 1, -42315>>,
      <<\HA7AD, \HA7AD, 1, -42305>>, <<\HA7AE, \HA7AE, 1, -42308>>,
      <<\HA7B0, \HA7B0, 1, -42258>>, <<\HA7B1, \HA7B1, 1, -42282>>,
      <<\HA7B2, \HA7B2, 1, -42261>>, <<\HA7B3, \HA7B3, 1, 928>>,
      <<\HA7B4, \HA7C2, 2, 1>>, <<\HA7C4, \HA7C4, 1, -48>>,
      <<\HA7C5, \HA7C5, 1, -42307>>, <<\HA7C6, \HA7C6, 1, -35384>>,
      <<\HA7C7, \HA7C9, 2, 1>>, <<\HA7CB, \HA7CB, 1, -42343>>,
      <<\HA7CC, \HA7DA, 2, 1>>, <<\HA7DC, \HA7DC, 1, -42561>>,
      <<\HA7F5, \HA7F5, 1, 1>>, <<\HFF21, \HFF3A, 1, 32>>,
      <<\H10400, \H10427, 1, 40>>, <<\H104B0, \H104D3, 1, 40>>,
      <<\H10570, \H1057A, 1, 39>>, <<\H1057C, \H1058A, 1, 39>>,
      <<\H1058C, \H10592, 1, 39>>, <<\H10594, \H10595, 1, 39>>,
      <<\H10C80, \H10CB2, 1, 64>>, <<\H10D50, \H10D65, 1, 32>>,
      <<\H118A0, \H118BF, 1, 32>>, <<\H16E40, \H16E5F, 1, 32>>,
      <<\H16EA0, \H16EB8, 1, 27>>, <<\H1E900, \H1E921, 1, 34>>
    }

\* The characters that the search for a cased letter passes over (the
\* property Case_Ignorable), among the ones written as their code
CaseIgnorableRanges ==
    {
      <<\H0060, \H0060>>, <<\H02B0, \H036F>>, <<\H0374, \H0375>>,
      <<\H037A, \H037A>>, <<\H0384, \H0385>>, <<\H0387, \H0387>>,
      <<\H0483, \H0489>>, <<\H0559, \H0559>>, <<\H055F, \H055F>>,
      <<\H0591, \H05BD>>, <<\H05BF, \H05BF>>, <<\H05C1, \H05C2>>,
      <<\H05C4, \H05C5>>, <<\H05C7, \H05C7>>, <<\H05F4, \H05F4>>,
      <<\H0600, \H0605>>, <<\H0610, \H061A>>, <<\H061C, \H061C>>,
      <<\H0640, \H0640>>, <<\H064B, \H065F>>, <<\H0670, \H0670>>,
      <<\H06D6, \H06DD>>, <<\H06DF, \H06E8>>, <<\H06EA, \H06ED>>,
      <<\H070F, \H070F>>, <<\H0711, \H0711>>, <<\H0730, \H074A>>,
      <<\H07A6, \H07B0>>, <<\H07EB, \H07F5>>, <<\H07FA, \H07FA>>,
      <<\H07FD, \H07FD>>, <<\H0816, \H082D>>, <<\H0859, \H085B>>,
      <<\H0888, \H0888>>, <<\H0890, \H0891>>, <<\H0897, \H089F>>,
      <<\H08C9, \H0902>>, <<\H093A, \H093A>>, <<\H093C, \H093C>>,
      <<\H0941, \H0948>>, <<\H094D, \H094D>>, <<\H0951, \H0957>>,
      <<\H0962, \H0963>>, <<\H0971, \H0971>>, <<\H0981, \H0981>>,
      <<\H09BC, \H09BC>>, <<\H09C1, \H09C4>>, <<\H09CD, \H09CD>>,
      <<\H09E2, \H09E3>>, <<\H09FE, \H09FE>>, <<\H0A01, \H0A02>>,
      <<\H0A3C, \H0A3C>>, <<\H0A41, \H0A42>>, <<\H0A47, \H0A48>>,
      <<\H0A4B, \H0A4D>>, <<\H0A51, \H0A51>>, <<\H0A70, \H0A71>>,
      <<\H0A75, \H0A75>>, <<\H0A81, \H0A82>>, <<\H0ABC, \H0ABC>>,
      <<\H0AC1, \H0AC5>>, <<\H0AC7, \H0AC8>>, <<\H0ACD, \H0ACD>>,
      <<\H0AE2, \H0AE3>>, <<\H0AFA, \H0AFF>>, <<\H0B01, \H0B01>>,
      <<\H0B3C, \H0B3C>>, <<\H0B3F, \H0B3F>>, <<\H0B41, \H0B44>>,
      <<\H0B4D, \H0B4D>>, <<\H0B55, \H0B56>>, <<\H0B62, \H0B63>>,
      <<\H0B82, \H0B82>>, <<\H0BC0, \H0BC0>>, <<\H0BCD, \H0BCD>>,
      <<\H0C00, \H0C00>>, <<\H0C04, \H0C04>>, <<\H0C3C, \H0C3C>>,
      <<\H0C3E, \H0C40>>, <<\H0C46, \H0C48>>, <<\H0C4A, \H0C4D>>,
      <<\H0C55, \H0C56>>, <<\H0C62, \H0C63>>, <<\H0C81, \H0C81>>,
      <<\H0CBC, \H0CBC>>, <<\H0CBF, \H0CBF>>, <<\H0CC6, \H0CC6>>,
      <<\H0CCC, \H0CCD>>, <<\H0CE2, \H0CE3>>, <<\H0D00, \H0D01>>,
      <<\H0D3B, \H0D3C>>, <<\H0D41, \H0D44>>, <<\H0D4D, \H0D4D>>,
      <<\H0D62, \H0D63>>, <<\H0D81, \H0D81>>, <<\H0DCA, \H0DCA>>,
      <<\H0DD2, \H0DD4>>, <<\H0DD6, \H0DD6>>, <<\H0E31, \H0E31>>,
      <<\H0E34, \H0E3A>>, <<\H0E46, \H0E4E>>, <<\H0EB1, \H0EB1>>,
      <<\H0EB4, \H0EBC>>, <<\H0EC6, \H0EC6>>, <<\H0EC8, \H0ECE>>,
      <<\H0F18, \H0F19>>, <<\H0F35, \H0F35>>, <<\H0F37, \H0F37>>,
      <<\H0F39, \H0F39>>, <<\H0F71, \H0F7E>>, <<\H0F80, \H0F84>>,
      <<\H0F86, \H0F87>>, <<\H0F8D, \H0F97>>, <<\H0F99, \H0FBC>>,
      <<\H0FC6, \H0FC6>>, <<\H102D, \H1030>>, <<\H1032, \H1037>>,
      <<\H1039, \H103A>>, <<\H103D, \H103E>>, <<\H1058, \H1059>>,
      <<\H105E, \H1060>>, <<\H1071, \H1074>>, <<\H1082, \H1082>>,
      <<\H1085, \H1086>>, <<\H108D, \H108D>>, <<\H109D, \H109D>>,
      <<\H10FC, \H10FC>>, <<\H135D, \H135F>>, <<\H1712, \H1714>>,
      <<\H1732, \H1733>>, <<\H1752, \H1753>>, <<\H1772, \H1773>>,
      <<\H17B4, \H17B5>>, <<\H17B7, \H17BD>>, <<\H17C6, \H17C6>>,
      <<\H17C9, \H17D3>>, <<\H17D7, \H17D7>>, <<\H17DD, \H17DD>>,
      <<\H180B, \H180F>>, <<\H1843, \H1843>>, <<\H1885, \H1886>>,
      <<\H18A9, \H18A9>>, <<\H1920, \H1922>>, <<\H1927, \H1928>>,
      <<\H1932, \H1932>>, <<\H1939, \H193B>>, <<\H1A17, \H1A18>>,
      <<\H1A1B, \H1A1B>>, <<\H1A56, \H1A56>>, <<\H1A58, \H1A5E>>,
      <<\H1A60, \H1A60>>, <<\H1A62, \H1A62>>, <<\H1A65, \H1A6C>>,
      <<\H1A73, \H1A7C>>, <<\H1A7F, \H1A7F>>, <<\H1AA7, \H1AA7>>,
      <<\H1AB0, \H1ADD>>, <<\H1AE0, \H1AEB>>, <<\H1B00, \H1B03>>,
      <<\H1B34, \H1B34>>, <<\H1B36, \H1B3A>>, <<\H1B3C, \H1B3C>>,
      <<\H1B42, \H1B42>>, <<\H1B6B, \H1B73>>, <<\H1B80, \H1B81>>,
      <<\H1BA2, \H1BA5>>, <<\H1BA8, \H1BA9>>, <<\H1BAB, \H1BAD>>,
      <<\H1BE6, \H1BE6>>, <<\H1BE8, \H1BE9>>, <<\H1BED, \H1BED>>,
      <<\H1BEF, \H1BF1>>, <<\H1C2C, \H1C33>>, <<\H1C36, \H1C37>>,
      <<\H1C78, \H1C7D>>, <<\H1CD0, \H1CD2>>, <<\H1CD4, \H1CE0>>,
      <<\H1CE2, \H1CE8>>, <<\H1CED, \H1CED>>, <<\H1CF4, \H1CF4>>,
      <<\H1CF8, \H1CF9>>, <<\H1D2C, \H1D6A>>, <<\H1D78, \H1D78>>,
      <<\H1D9B, \H1DFF>>, <<\H1FBD, \H1FBD>>, <<\H1FBF, \H1FC1>>,
      <<\H1FCD, \H1FCF>>, <<\H1FDD, \H1FDF>>, <<\H1FED, \H1FEF>>,
      <<\H1FFD, \H1FFE>>, <<\H200B, \H200F>>, <<\H2018, \H2019>>,
      <<\H2024, \H2024>>, <<\H2027, \H2027>>, <<\H202A, \H202E>>,
      <<\H2060, \H2064>>, <<\H2066, \H206F>>, <<\H2071, \H2071>>,
      <<\H207F, \H207F>>, <<\H2090, \H209C>>, <<\H20D0, \H20F0>>,
      <<\H2C7C, \H2C7D>>, <<\H2CEF, \H2CF1>>, <<\H2D6F, \H2D6F>>,
      <<\H2D7F, \H2D7F>>, <<\H2DE0, \H2DFF>>, <<\H2E2F, \H2E2F>>,
      <<\H3005, \H3005>>, <<\H302A, \H302D>>, <<\H3031, \H3035>>,
      <<\H303B, \H303B>>, <<\H3099, \H309E>>, <<\H30FC, \H30FE>>,
      <<\HA015, \HA015>>, <<\HA4F8, \HA4FD>>, <<\HA60C, \HA60C>>,
      <<\HA66F, \HA672>>, <<\HA674, \HA67D>>, <<\HA67F, \HA67F>>,
      <<\HA69C, \HA69F>>, <<\HA6F0, \HA6F1>>, <<\HA700, \HA721>>,
      <<\HA770, \HA770>>, <<\HA788, \HA78A>>, <<\HA7F1, \HA7F4>>,
      <<\HA7F8, \HA7F9>>, <<\HA802, \HA802>>, <<\HA806, \HA806>>,
      <<\HA80B, \HA80B>>, <<\HA825, \HA826>>, <<\HA82C, \HA82C>>,
      <<\HA8C4, \HA8C5>>, <<\HA8E0, \HA8F1>>, <<\HA8FF, \HA8FF>>,
      <<\HA926, \HA92D>>, <<\HA947, \HA951>>, <<\HA980, \HA982>>,
      <<\HA9B3, \HA9B3>>, <<\HA9B6, \HA9B9>>, <<\HA9BC, \HA9BD>>,
      <<\HA9CF, \HA9CF>>, <<\HA9E5, \HA9E6>>, <<\HAA29, \HAA2E>>,
      <<\HAA31, \HAA32>>, <<\HAA35, \HAA36>>, <<\HAA43, \HAA43>>,
      <<\HAA4C, \HAA4C>>, <<\HAA70, \HAA70>>, <<\HAA7C, \HAA7C>>,
      <<\HAAB0, \HAAB0>>, <<\HAAB2, \HAAB4>>, <<\HAAB7, \HAAB8>>,
      <<\HAABE, \HAABF>>, <<\HAAC1, \HAAC1>>, <<\HAADD, \HAADD>>,
      <<\HAAEC, \HAAED>>, <<\HAAF3, \HAAF4>>, <<\HAAF6, \HAAF6>>,
      <<\HAB5B, \HAB5F>>, <<\HAB69, \HAB6B>>, <<\HABE5, \HABE5>>,
      <<\HABE8, \HABE8>>, <<\HABED, \HABED>>, <<\HFB1E, \HFB1E>>,
      <<\HFBB2, \HFBC2>>, <<\HFE00, \HFE0F>>, <<\HFE13, \HFE13>>,
      <<\HFE20, \HFE2F>>, <<\HFE52, \HFE52>>, <<\HFE55, \HFE55>>,
      <<\HFEFF, \HFEFF>>, <<\HFF07, \HFF07>>, <<\HFF0E, \HFF0E>>,
      <<\HFF1A, \HFF1A>>, <<\HFF3E, \HFF3E>>, <<\HFF40, \HFF40>>,
      <<\HFF70, \HFF70>>, <<\HFF9E, \HFF9F>>, <<\HFFE3, \HFFE3>>,
      <<\HFFF9, \HFFFB>>, <<\H101FD, \H101FD>>, <<\H102E0, \H102E0>>,
      <<\H10376, \H1037A>>, <<\H10780, \H10785>>, <<\H10787, \H107B0>>,
      <<\H107B2, \H107BA>>, <<\H10A01, \H10A03>>, <<\H10A05, \H10A06>>,
      <<\H10A0C, \H10A0F>>, <<\H10A38, \H10A3A>>, <<\H10A3F, \H10A3F>>,
      <<\H10AE5, \H10AE6>>, <<\H10D24, \H10D27>>, <<\H10D4E, \H10D4E>>,
      <<\H10D69, \H10D6D>>, <<\H10D6F, \H10D6F>>, <<\H10EAB, \H10EAC>>,
      <<\H10EC5, \H10EC5>>,
      <<\H10EFA, \H10EFF>>, <<\H10F46, \H10F50>>, <<\H10F82, \H10F85>>,
      <<\H11001, \H11001>>, <<\H11038, \H11046>>, <<\H11070, \H11070>>,
      <<\H11073, \H11074>>, <<\H1107F, \H11081>>, <<\H110B3, \H110B6>>,
      <<\H110B9, \H110BA>>, <<\H110BD, \H110BD>>, <<\H110C2, \H110C2>>,
      <<\H110CD, \H110CD>>, <<\H11100, \H11102>>, <<\H11127, \H1112B>>,
      <<\H1112D, \H11134>>, <<\H11173, \H11173>>, <<\H11180, \H11181>>,
      <<\H111B6, \H111BE>>, <<\H111C9, \H111CC>>, <<\H111CF, \H111CF>>,
      <<\H1122F, \H11231>>, <<\H11234, \H11234>>, <<\H11236, \H11237>>,
      <<\H1123E, \H1123E>>, <<\H11241, \H11241>>, <<\H112DF, \H112DF>>,
      <<\H112E3, \H112EA>>, <<\H11300, \H11301>>, <<\H1133B, \H1133C>>,
      <<\H11340, \H11340>>, <<\H11366, \H1136C>>, <<\H11370, \H11374>>,
      <<\H113BB, \H113C0>>, <<\H113CE, \H113CE>>, <<\H113D0, \H113D0>>,
      <<\H113D2, \H113D2>>, <<\H113E1, \H113E2>>, <<\H11438, \H1143F>>,
      <<\H11442, \H11444>>, <<\H11446, \H11446>>, <<\H1145E, \H1145E>>,
      <<\H114B3, \H114B8>>, <<\H114BA, \H114BA>>, <<\H114BF, \H114C0>>,
      <<\H114C2, \H114C3>>, <<\H115B2, \H115B5>>, <<\H115BC, \H115BD>>,
      <<\H115BF, \H115C0>>, <<\H115DC, \H115DD>>, <<\H11633, \H1163A>>,
      <<\H1163D, \H1163D>>, <<\H1163F, \H11640>>, <<\H116AB, \H116AB>>,
      <<\H116AD, \H116AD>>, <<\H116B0, \H116B5>>, <<\H116B7, \H116B7>>,
      <<\H1171D, \H1171D>>, <<\H1171F, \H1171F>>, <<\H11722, \H11725>>,
      <<\H11727, \H1172B>>, <<\H1182F, \H11837>>, <<\H11839, \H1183A>>,
      <<\H1193B, \H1193C>>, <<\H1193E, \H1193E>>, <<\H11943, \H11943>>,
      <<\H119D4, \H119D7>>, <<\H119DA, \H119DB>>, <<\H119E0, \H119E0>>,
      <<\H11A01, \H11A0A>>, <<\H11A33, \H11A38>>, <<\H11A3B, \H11A3E>>,
      <<\H11A47, \H11A47>>, <<\H11A51, \H11A56>>, <<\H11A59, \H11A5B>>,
      <<\H11A8A, \H11A96>>, <<\H11A98, \H11A99>>, <<\H11B60, \H11B60>>,
      <<\H11B62, \H11B64>>, <<\H11B66, \H11B66>>, <<\H11C30, \H11C36>>,
      <<\H11C38, \H11C3D>>, <<\H11C3F, \H11C3F>>, <<\H11C92, \H11CA7>>,
      <<\H11CAA, \H11CB0>>, <<\H11CB2, \H11CB3>>, <<\H11CB5, \H11CB6>>,
      <<\H11D31, \H11D36>>, <<\H11D3A, \H11D3A>>, <<\H11D3C, \H11D3D>>,
      <<\H11D3F, \H11D45>>, <<\H11D47, \H11D47>>, <<\H11D90, \H11D91>>,
      <<\H11D95, \H11D95>>, <<\H11D97, \H11D97>>, <<\H11DD9, \H11DD9>>,
      <<\H11EF3, \H11EF4>>,
      <<\H11F00, \H11F01>>, <<\H11F36, \H11F3A>>, <<\H11F40, \H11F40>>,
      <<\H11F42, \H11F42>>, <<\H11F5A, \H11F5A>>, <<\H13430, \H13440>>,
      <<\H13447, \H13455>>, <<\H1611E, \H16129>>, <<\H1612D, \H1612F>>,
      <<\H16AF0, \H16AF4>>, <<\H16B30, \H16B36>>, <<\H16B40, \H16B43>>,
      <<\H16D40, \H16D42>>, <<\H16D6B, \H16D6C>>, <<\H16F4F, \H16F4F>>,
      <<\H16F8F, \H16F9F>>, <<\H16FE0, \H16FE1>>, <<\H16FE3, \H16FE4>>,
      <<\H16FF2, \H16FF3>>,
      <<\H1AFF0, \H1AFF3>>, <<\H1AFF5, \H1AFFB>>, <<\H1AFFD, \H1AFFE>>,
      <<\H1BC9D, \H1BC9E>>, <<\H1BCA0, \H1BCA3>>, <<\H1CF00, \H1CF2D>>,
      <<\H1CF30, \H1CF46>>, <<\H1D167, \H1D169>>, <<\H1D173, \H1D182>>,
      <<\H1D185, \H1D18B>>, <<\H1D1AA, \H1D1AD>>, <<\H1D242, \H1D244>>,
      <<\H1DA00, \H1DA36>>, <<\H1DA3B, \H1DA6C>>, <<\H1DA75, \H1DA75>>,
      <<\H1DA84, \H1DA84>>, <<\H1DA9B, \H1DA9F>>, <<\H1DAA1, \H1DAAF>>,
      <<\H1E000, \H1E006>>, <<\H1E008, \H1E018>>, <<\H1E01B, \H1E021>>,
      <<\H1E023, \H1E024>>, <<\H1E026, \H1E02A>>, <<\H1E030, \H1E06D>>,
      <<\H1E08F, \H1E08F>>, <<\H1E130, \H1E13D>>, <<\H1E2AE, \H1E2AE>>,
      <<\H1E2EC, \H1E2EF>>, <<\H1E4EB, \H1E4EF>>, <<\H1E5EE, \H1E5EF>>,
      <<\H1E6E3, \H1E6E3>>, <<\H1E6E6, \H1E6E6>>, <<\H1E6EE, \H1E6EF>>,
      <<\H1E6F5, \H1E6F5>>, <<\H1E6FF, \H1E6FF>>,
      <<\H1E8D0, \H1E8D6>>, <<\H1E944, \H1E94B>>,
      <<\H1F3FB, \H1F3FF>>, <<\HE0001, \HE0001>>, <<\HE0020, \HE007F>>,
      <<\HE0100, \HE01EF>>
    }

\* The cased letters (the property Cased) above U+00FF, without the ones the
\* search passes over
CasedRanges ==
    {
      <<\H0100, \H01BA>>, <<\H01BC, \H01BF>>, <<\H01C4, \H0293>>,
      <<\H0296, \H02AF>>, <<\H0370, \H0373>>, <<\H0376, \H0377>>,
      <<\H037B, \H037D>>, <<\H037F, \H037F>>, <<\H0386, \H0386>>,
      <<\H0388, \H038A>>, <<\H038C, \H038C>>, <<\H038E, \H03A1>>,
      <<\H03A3, \H03F5>>, <<\H03F7, \H0481>>, <<\H048A, \H052F>>,
      <<\H0531, \H0556>>, <<\H0560, \H0588>>, <<\H10A0, \H10C5>>,
      <<\H10C7, \H10C7>>, <<\H10CD, \H10CD>>, <<\H10D0, \H10FA>>,
      <<\H10FD, \H10FF>>, <<\H13A0, \H13F5>>, <<\H13F8, \H13FD>>,
      <<\H1C80, \H1C8A>>, <<\H1C90, \H1CBA>>, <<\H1CBD, \H1CBF>>,
      <<\H1D00, \H1D2B>>, <<\H1D6B, \H1D77>>, <<\H1D79, \H1D9A>>,
      <<\H1E00, \H1F15>>, <<\H1F18, \H1F1D>>, <<\H1F20, \H1F45>>,
      <<\H1F48, \H1F4D>>, <<\H1F50, \H1F57>>, <<\H1F59, \H1F59>>,
      <<\H1F5B, \H1F5B>>, <<\H1F5D, \H1F5D>>, <<\H1F5F, \H1F7D>>,
      <<\H1F80, \H1FB4>>, <<\H1FB6, \H1FBC>>, <<\H1FBE, \H1FBE>>,
      <<\H1FC2, \H1FC4>>, <<\H1FC6, \H1FCC>>, <<\H1FD0, \H1FD3>>,
      <<\H1FD6, \H1FDB>>, <<\H1FE0, \H1FEC>>, <<\H1FF2, \H1FF4>>,
      <<\H1FF6, \H1FFC>>, <<\H2102, \H2102>>, <<\H2107, \H2107>>,
      <<\H210A, \H2113>>, <<\H2115, \H2115>>, <<\H2119, \H211D>>,
      <<\H2124, \H2124>>, <<\H2126, \H2126>>, <<\H2128, \H2128>>,
      <<\H212A, \H212D>>, <<\H212F, \H2134>>, <<\H2139, \H2139>>,
      <<\H213C, \H213F>>, <<\H2145, \H2149>>, <<\H214E, \H214E>>,
      <<\H2160, \H217F>>, <<\H2183, \H2184>>, <<\H24B6, \H24E9>>,
      <<\H2C00, \H2C7B>>, <<\H2C7E, \H2CE4>>, <<\H2CEB, \H2CEE>>,
      <<\H2CF2, \H2CF3>>, <<\H2D00, \H2D25>>, <<\H2D27, \H2D27>>,
      <<\H2D2D, \H2D2D>>, <<\HA640, \HA66D>>, <<\HA680, \HA69B>>,
      <<\HA722, \HA76F>>, <<\HA771, \HA787>>, <<\HA78B, \HA78E>>,
      <<\HA790, \HA7DC>>, <<\HA7F5, \HA7F6>>, <<\HA7FA, \HA7FA>>,
      <<\HAB30, \HAB5A>>, <<\HAB60, \HAB68>>, <<\HAB70, \HABBF>>,
      <<\HFB00, \HFB06>>, <<\HFB13, \HFB17>>, <<\HFF21, \HFF3A>>,
      <<\HFF41, \HFF5A>>, <<\H10400, \H1044F>>, <<\H104B0, \H104D3>>,
      <<\H104D8, \H104FB>>, <<\H10570, \H1057A>>, <<\H1057C, \H1058A>>,
      <<\H1058C, \H10592>>, <<\H10594, \H10595>>, <<\H10597, \H105A1>>,
      <<\H105A3, \H105B1>>, <<\H105B3, \H105B9>>, <<\H105BB, \H105BC>>,
      <<\H10C80, \H10CB2>>, <<\H10CC0, \H10CF2>>, <<\H10D50, \H10D65>>,
      <<\H10D70, \H10D85>>, <<\H118A0, \H118DF>>, <<\H16E40, \H16E7F>>,
      <<\H16EA0, \H16EB8>>, <<\H16EBB, \H16ED3>>, <<\H1D400, \H1D454>>,
      <<\H1D456, \H1D49C>>, <<\H1D49E, \H1D49F>>, <<\H1D4A2, \H1D4A2>>,
      <<\H1D4A5, \H1D4A6>>, <<\H1D4A9, \H1D4AC>>, <<\H1D4AE, \H1D4B9>>,
      <<\H1D4BB, \H1D4BB>>, <<\H1D4BD, \H1D4C3>>, <<\H1D4C5, \H1D505>>,
      <<\H1D507, \H1D50A>>, <<\H1D50D, \H1D514>>, <<\H1D516, \H1D51C>>,
      <<\H1D51E, \H1D539>>, <<\H1D53B, \H1D53E>>, <<\H1D540, \H1D544>>,
      <<\H1D546, \H1D546>>, <<\H1D54A, \H1D550>>, <<\H1D552, \H1D6A5>>,
      <<\H1D6A8, \H1D6C0>>, <<\H1D6C2, \H1D6DA>>, <<\H1D6DC, \H1D6FA>>,
      <<\H1D6FC, \H1D714>>, <<\H1D716, \H1D734>>, <<\H1D736, \H1D74E>>,
      <<\H1D750, \H1D76E>>, <<\H1D770, \H1D788>>, <<\H1D78A, \H1D7A8>>,
      <<\H1D7AA, \H1D7C2>>, <<\H1D7C4, \H1D7CB>>, <<\H1DF00, \H1DF09>>,
      <<\H1DF0B, \H1DF1E>>, <<\H1DF25, \H1DF2A>>, <<\H1E900, \H1E943>>,
      <<\H1F130, \H1F149>>, <<\H1F150, \H1F169>>, <<\H1F170, \H1F189>>
    }

\* the same for the characters up to U+00FF
CaseIgnorableLatin1 == {"'", ".", ":", "^", "¨", SoftHyphen, "¯", "´", "·", "¸"}

CasedLatin1 ==
    {UpperCase[k] : k \in 1..Len(UpperCase)} \cup {LowerCase[k] : k \in 1..Len(LowerCase)}
        \cup {UpperCaseLatin1[k] : k \in 1..Len(UpperCaseLatin1)}
        \cup {LowerCaseLatin1[k] : k \in 1..Len(LowerCaseLatin1)}
        \cup {"ª", "µ", "º", "ß", "ÿ"}

\* The characters toLowerCase changes whatever stands around them, and what
\* it puts in their place, for the characters up to U+00FF, for the ones
\* changed into a character up to U+00FF, and for the capital I with dot
\* above, changed into i and the combining dot above (SpecialCasing.txt)
LowerOf ==
    ( [c \in {UpperCase[u] : u \in 1..Len(UpperCase)} |->
          <<LowerCase[CHOOSE u \in 1..Len(UpperCase) : UpperCase[u] = c]>>]
      @@ [c \in {UpperCaseLatin1[u] : u \in 1..Len(UpperCaseLatin1)} |->
          <<LowerCaseLatin1[CHOOSE u \in 1..Len(UpperCaseLatin1) : UpperCaseLatin1[u] = c]>>]
      @@ ("U+0178" :> <<"ÿ">>) @@ ("U+1E9E" :> <<"ß">>)
      @@ ("U+212A" :> <<"k">>) @@ ("U+212B" :> <<"å">>)
      @@ ("U+0130" :> <<"i", "U+0307">>) ) @@ <<>>

\* the characters LowerOf has
LowerCaseChanges == DOMAIN LowerOf

\* "ignorable" for a character the search for a cased letter passes over,
\* else "cased" for a cased letter
caseTypeOf(cp) ==
    IF InRanges(cp, CaseIgnorableRanges) THEN "ignorable"
    ELSE IF InRanges(cp, CasedRanges) THEN "cased"
    ELSE "none"

\* how much further the lower case of the character is: {} when it has none
lowerCaseOffsets(cp) ==
    {r[4] : r \in {x \in LowerCaseRanges :
                      cp >= x[1] /\ cp <= x[2] /\ (cp - x[1]) % x[3] = 0}}

lowerOfCode(cp, offsets, unchanged) ==
    IF offsets = {} THEN unchanged ELSE unitsOf(cp + CHOOSE n \in offsets : TRUE)

\* The character that the code unit at i is, or is one unit of: the position
\* of its first unit, its number of units, what it is for the search of a
\* cased letter, and its lower case whatever stands around it
characterAt(s, i) ==
    LET start == IF i > 1 /\ IsLowSurrogate(s[i]) /\ IsHighSurrogate(s[i - 1])
                 THEN i - 1 ELSE i
        units == IF start < Len(s) /\ IsHighSurrogate(s[start])
                       /\ IsLowSurrogate(s[start + 1])
                 THEN 2 ELSE 1
        cp == IF units = 2
              THEN \H10000 + (CodeOf(s[start]) - \HD800) * 1024
                       + (CodeOf(s[start + 1]) - \HDC00)
              ELSE CodeOf(s[start])
        unchanged == SubSeq(s, start, start + units - 1)
    IN  [start |-> start,
         units |-> units,
         type |-> IF IsWrittenAsCode(s[start]) THEN caseTypeOf(cp)
                  ELSE IF s[start] \in CaseIgnorableLatin1 THEN "ignorable"
                  ELSE IF s[start] \in CasedLatin1 THEN "cased"
                  ELSE "none",
         lower |-> IF units = 1 /\ s[start] \in LowerCaseChanges THEN LowerOf[s[start]]
                   ELSE IF IsWrittenAsCode(s[start])
                   THEN lowerOfCode(cp, lowerCaseOffsets(cp), unchanged)
                   ELSE unchanged]

\* Whether a cased letter comes next from the code unit at i on, to the left
\* (dir -1) or to the right (dir 1), over the characters that are passed
\* over; characters[i] is characterAt(s, i)
RECURSIVE isFollowedByCasedLetter(_, _, _, _)
isFollowedByCasedLetter(s, i, dir, characters) ==
    IF i < 1 \/ i > Len(s) THEN FALSE
    ELSE IF characters[i].type = "ignorable"
    THEN isFollowedByCasedLetter(s, IF dir = 1
                                    THEN characters[i].start + characters[i].units
                                    ELSE characters[i].start - 1, dir, characters)
    ELSE characters[i].type = "cased"

\* What toLowerCase puts in the place of the character that starts at i: the
\* capital sigma becomes the final sigma U+03C2 after a cased letter when no
\* cased letter follows, else the sigma U+03C3
lowerAt(s, i, characters) ==
    IF s[i] = "U+03A3"
    THEN IF isFollowedByCasedLetter(s, i - 1, -1, characters)
              /\ ~isFollowedByCasedLetter(s, i + 1, 1, characters)
         THEN <<"U+03C2">>
         ELSE <<"U+03C3">>
    ELSE characters[i].lower

RECURSIVE toLowerCaseFrom(_, _, _)
toLowerCaseFrom(s, i, characters) ==
    IF i > Len(s) THEN <<>>
    ELSE lowerAt(s, i, characters)
             \o toLowerCaseFrom(s, i + characters[i].units, characters)

\* String.prototype.toLowerCase
toLowerCase(s) ==
    toLowerCaseFrom(s, 1, [i \in 1..Len(s) |-> characterAt(s, i)] @@ <<>>)

\* String.prototype.endsWith
endsWith(s, suffix) ==
    /\ Len(suffix) <= Len(s)
    /\ SubSeq(s, Len(s) - Len(suffix) + 1, Len(s)) = suffix

\* The first-level order of localeCompare (the root collation): white space,
\* punctuation, symbols, digits, letters.  Each character here has a
\* first-level weight of its own.
Collation ==
    <<"\t", "\n", VT, "\f", "\r", SP, "_", "-", ",", ";", ":", "!", "?",
      ".", "'", "\"", "(", ")", "[", "]", "{", "}", "@", "*", "/", "\\",
      "&", "#", "%", GraveAccent, "^", "+", "<", "=", ">", "|", "~", "$", "0", "1",
      "2", "3", "4", "5", "6", "7", "8", "9">>
        \o LowerCase

\* the second-level weights: none, then the accents
Acute == 1
Grave == 2
Circumflex == 3
Ring == 4
Diaeresis == 5
Tilde == 6
DotAbove == 7
Cedilla == 8

\* the accented letters of Latin-1: the letter, its base letter, its accent,
\* and 1 for upper case
AccentedLetters ==
    <<<<"À", "a", 2, 1>>, <<"à", "a", 2, 0>>, <<"Á", "a", 1, 1>>,
      <<"á", "a", 1, 0>>, <<"Â", "a", 3, 1>>, <<"â", "a", 3, 0>>,
      <<"Ã", "a", 6, 1>>, <<"ã", "a", 6, 0>>, <<"Ä", "a", 5, 1>>,
      <<"ä", "a", 5, 0>>, <<"Å", "a", 4, 1>>, <<"å", "a", 4, 0>>,
      <<"Ç", "c", 8, 1>>, <<"ç", "c", 8, 0>>, <<"È", "e", 2, 1>>,
      <<"è", "e", 2, 0>>, <<"É", "e", 1, 1>>, <<"é", "e", 1, 0>>,
      <<"Ê", "e", 3, 1>>, <<"ê", "e", 3, 0>>, <<"Ë", "e", 5, 1>>,
      <<"ë", "e", 5, 0>>, <<"Ì", "i", 2, 1>>, <<"ì", "i", 2, 0>>,
      <<"Í", "i", 1, 1>>, <<"í", "i", 1, 0>>, <<"Î", "i", 3, 1>>,
      <<"î", "i", 3, 0>>, <<"Ï", "i", 5, 1>>, <<"ï", "i", 5, 0>>,
      <<"Ñ", "n", 6, 1>>, <<"ñ", "n", 6, 0>>, <<"Ò", "o", 2, 1>>,
      <<"ò", "o", 2, 0>>, <<"Ó", "o", 1, 1>>, <<"ó", "o", 1, 0>>,
      <<"Ô", "o", 3, 1>>, <<"ô", "o", 3, 0>>, <<"Õ", "o", 6, 1>>,
      <<"õ", "o", 6, 0>>, <<"Ö", "o", 5, 1>>, <<"ö", "o", 5, 0>>,
      <<"Ù", "u", 2, 1>>, <<"ù", "u", 2, 0>>, <<"Ú", "u", 1, 1>>,
      <<"ú", "u", 1, 0>>, <<"Û", "u", 3, 1>>, <<"û", "u", 3, 0>>,
      <<"Ü", "u", 5, 1>>, <<"ü", "u", 5, 0>>, <<"Ý", "y", 1, 1>>,
      <<"ý", "y", 1, 0>>, <<"ÿ", "y", 5, 0>>>>

CollationRank(c) == CHOOSE k \in 1..Len(Collation) : Collation[k] = c

\* The collation elements of each character compared here: <<first-level
\* weight, second-level weight, third-level weight>>, 0 for no weight at the
\* first level, for no accent, and for lower case.  An upper-case letter has
\* the first-level weight of its lower-case letter, an accented letter is its
\* base letter followed by the accent, the no-break space is a variant of
\* the space.  (The letters ae, eth, o with stroke, thorn and sharp s, and
\* the characters above U+00FF other than the combining dot, are not here.)
CollationElements ==
    ( [c \in {Collation[k] : k \in 1..Len(Collation)} |-> <<<<CollationRank(c), 0, 0>>>>]
      @@ [c \in {UpperCase[k] : k \in 1..Len(UpperCase)} |->
             <<<<CollationRank(LowerOf[c][1]), 0, 1>>>>]
      @@ [c \in {AccentedLetters[k][1] : k \in 1..Len(AccentedLetters)} |->
             LET e == AccentedLetters[CHOOSE k \in 1..Len(AccentedLetters) :
                                         AccentedLetters[k][1] = c]
             IN  <<<<CollationRank(e[2]), 0, e[4]>>, <<0, e[3], 0>>>>]
      @@ (NBSP :> <<<<CollationRank(SP), 0, 1>>>>)
      @@ ("U+0307" :> <<<<0, DotAbove, 0>>>>) ) @@ <<>>

\* the collation elements of a string
RECURSIVE elementsOf(_)
elementsOf(s) ==
    IF s = <<>> THEN <<>> ELSE CollationElements[Head(s)] \o elementsOf(Tail(s))

\* the weights of one level, without the elements that have none at the first
\* level when the level is the first
RECURSIVE levelKey(_, _)
levelKey(e, level) ==
    IF e = <<>> THEN <<>>
    ELSE IF level = 1 /\ Head(e)[1] = 0 THEN levelKey(Tail(e), level)
    ELSE <<Head(e)[level]>> \o levelKey(Tail(e), level)

\* the order of two keys: by the first weight that differs, a prefix first
RECURSIVE compareKeys(_, _)
compareKeys(x, y) ==
    IF x = <<>> /\ y = <<>> THEN 0
    ELSE IF x = <<>> THEN -1
    ELSE IF y = <<>> THEN 1
    ELSE IF Head(x) < Head(y) THEN -1
    ELSE IF Head(x) > Head(y) THEN 1
    ELSE compareKeys(Tail(x), Tail(y))

\* The order of two strings given by their collation elements: the letters
\* decide first, then the accents, then the case, each over the whole string.
compareElements(ea, eb) ==
    LET first == compareKeys(levelKey(ea, 1), levelKey(eb, 1))
        second == compareKeys(levelKey(ea, 2), levelKey(eb, 2))
    IN  IF first # 0 THEN first
        ELSE IF second # 0 THEN second
        ELSE compareKeys(levelKey(ea, 3), levelKey(eb, 3))

\* String.prototype.localeCompare: negative, zero or positive
localeCompare(a, b) == compareElements(elementsOf(a), elementsOf(b))

AValNotAFunction == "TypeError: (a[sortConfig.key] || \"\").toLowerCase is not a function"
BValNotAFunction == "TypeError: (b[sortConfig.key] || \"\").toLowerCase is not a function"

\* (row[sortConfig.key] || "").toLowerCase(): the folded string as
\* [value |-> ...], or the TypeError thrown when row[key] is an inherited
\* object or function, which is truthy and has no toLowerCase
sortValue(row, key, notAFunction) ==
    LET v == GetKey(row, key)
    IN  IF "string" \in DOMAIN v THEN [value |-> toLowerCase(v.string)]
        ELSE IF v = NoProperty THEN [value |-> <<>>]
        ELSE Thrown(notAFunction)

\* The return of the comparator for the two values read: what reading aVal
\* threw, else what reading bVal threw, else [value |-> the number returned]
compareValues(aVal, bVal, direction) ==
    IF IsThrown(aVal) THEN aVal
    ELSE IF IsThrown(bVal) THEN bVal
    ELSE IF direction = "asc"
    THEN [value |-> localeCompare(aVal.value, bVal.value)]
    ELSE [value |-> localeCompare(bVal.value, aVal.value)]

\* The comparator given to sorted.sort: aVal, then bVal, then the comparison;
\* [value |-> the number returned], or the TypeError thrown
compareRows(a, b, cfg) ==
    compareValues(sortValue(a, cfg.key, AValNotAFunction),
                  sortValue(b, cfg.key, BValNotAFunction), cfg.direction)

\* The comparator on the elements of the array, as a table: at <<a, b>>, what
\* the call on a and b returns or throws, compareRows(a, b, cfg).  aVals[a]
\* is what the read of a as the first argument gives, bVals[b] what the read
\* of b as the second argument gives.
comparatorOf(aVals, bVals, direction) ==
    [p \in (DOMAIN aVals) \X (DOMAIN bVals) |->
        compareValues(aVals[p[1]], bVals[p[2]], direction)]

comparator(s, cfg) ==
    comparatorOf(
        [a \in {s[k] : k \in 1..Len(s)} |->
            sortValue(a, cfg.key, AValNotAFunction)] @@ <<>>,
        [b \in {s[k] : k \in 1..Len(s)} |->
            sortValue(b, cfg.key, BValNotAFunction)] @@ <<>>,
        cfg.direction)

\* One merge of two sorted runs, the left one first in the array.  The
\* engine calls the comparator with the element of the right run as a and
\* the one of the left run as b.  An element of the right run goes before
\* the elements of the left run it is smaller than, and after the ones it is
\* equal to: the merge is stable.  [rows |-> the merged run], or what the
\* comparator threw: on the first elements of the runs, which a merge
\* compares first, else on another pair.
merge(left, right, compared) ==
    LET \* each a table, filled once
        answers ==
            [p \in (1..Len(left)) \X (1..Len(right)) |->
                compared[<<right[p[2]], left[p[1]]>>]] @@ <<>>
        throwing == {p \in DOMAIN answers : IsThrown(answers[p])}
        placeLeft ==
            [i \in 1..Len(left) |->
                i + Cardinality({j \in 1..Len(right) : answers[<<i, j>>].value < 0})]
            @@ <<>>
        placeRight ==
            [j \in 1..Len(right) |->
                j + Cardinality({i \in 1..Len(left) : answers[<<i, j>>].value >= 0})]
            @@ <<>>
    IN  IF <<1, 1>> \in throwing THEN answers[<<1, 1>>]
        ELSE IF throwing # {} THEN answers[CHOOSE p \in throwing : TRUE]
        ELSE [rows |->
                 [k \in 1..(Len(left) + Len(right)) |->
                     IF \E i \in 1..Len(left) : placeLeft[i] = k
                     THEN left[CHOOSE i \in 1..Len(left) : placeLeft[i] = k]
                     ELSE right[CHOOSE j \in 1..Len(right) : placeRight[j] = k]]]

\* The array in the comparator's order, equal elements in the order they
\* had: what a stable sort leaves, whatever the calls it makes
RECURSIVE stableSort(_, _)
stableSort(s, compared) ==
    IF Len(s) < 2 THEN [rows |-> s]
    ELSE LET half == Len(s) \div 2
             left == stableSort(SubSeq(s, 1, half), compared)
             right == stableSort(SubSeq(s, half + 1, Len(s)), compared)
         IN  IF IsThrown(left) THEN left
             ELSE IF IsThrown(right) THEN right
             ELSE merge(left.rows, right.rows, compared)

\* The shortest run the engine merges, for an array of n elements: n itself
\* below 64 (the whole array is then one run, sorted by insertion)
RECURSIVE ComputeMinRunLength(_, _)
ComputeMinRunLength(n, r) ==
    IF n < 64 THEN n + r
    ELSE ComputeMinRunLength(n \div 2, IF n % 2 = 1 THEN 1 ELSE r)

\* Whether the comparator reads the element at m as b before it reads it as
\* a, m being the first element whose read throws and low the start of a run
\* at or before m.  The engine makes its runs from the left: it calls the
\* comparator on the elements at low + 1 and low, then on each next element
\* and the one before it while the order goes on, and inserts the following
\* elements, each as a, until the run has the shortest length.  So an
\* element is read first as a, unless it starts the array, or a run that
\* follows a run made longer by insertion, and has an element after it: a
\* last element that is a run of its own is read by the merge, as a.
RECURSIVE readFirstAsB(_, _, _, _)
readFirstAsB(s, compared, low, m) ==
    IF low = m THEN m < Len(s)
    ELSE IF low + 1 = m THEN FALSE
    ELSE LET descending == compared[<<s[low + 1], s[low]>>].value < 0
             ends == {k \in (low + 2)..(m - 1) :
                         IF descending
                         THEN compared[<<s[k], s[k - 1]>>].value >= 0
                         ELSE compared[<<s[k], s[k - 1]>>].value < 0}
         IN  IF ends = {} THEN FALSE
             ELSE LET runLength == (CHOOSE k \in ends : \A e \in ends : k <= e) - low
                      minRunLength == ComputeMinRunLength(Len(s), 0)
                      remaining == Len(s) - low + 1
                      currentRunLength ==
                          IF runLength >= minRunLength THEN runLength
                          ELSE IF minRunLength < remaining THEN minRunLength
                          ELSE remaining
                  IN  IF low + currentRunLength > m THEN FALSE
                      ELSE readFirstAsB(s, compared, low + currentRunLength, m)

\* What the first call of the comparator that throws, throws: m is the first
\* element whose read throws.  The call is on the elements at m + 1 and m
\* when m is read first as b, else m is a, and b an element read before.
firstThrown(s, compared, m) ==
    IF readFirstAsB(s, compared, 1, m)
    THEN compared[<<s[m + 1], s[m]>>]
    ELSE compared[<<s[m], s[m - 1]>>]

\* The sort, given the comparator as a table.  The read of an element throws
\* when the comparator throws on the element and itself.
sortCompared(s, compared) ==
    LET throwing == {k \in 1..Len(s) : IsThrown(compared[<<s[k], s[k]>>])}
    IN  IF Len(s) < 2 THEN [rows |-> s]
        ELSE IF throwing # {}
        THEN firstThrown(s, compared,
                         CHOOSE m \in throwing : \A k \in throwing : m <= k)
        ELSE stableSort(s, compared)

\* sorted.sort(comparator): Array.prototype.sort is stable, and it does not
\* call the comparator on an array of fewer than two elements.
\* [rows |-> the array sorted], or what the comparator threw.
arraySort(s, cfg) == sortCompared(s, comparator(s, cfg))

\* The useMemo of sortedRows: [rows |-> a copy of the rows prop, sorted when a
\* sort is set], or what the comparator threw during the render
sortedRowsOf(rws, cfg) ==
    IF cfg = NoSort THEN [rows |-> rws] ELSE arraySort(rws, cfg)

\* the rows prop after a sort done on the prop itself, not on a copy
rowsPropAfterMemo_InPlace(rws, cfg) ==
    LET sorted == sortedRowsOf(rws, cfg)
    IN  IF IsThrown(sorted) THEN rws ELSE sorted.rows

\* The rows prop as the useMemo callback leaves it: untouched, because the
\* callback sorts the copy [...rows]
rowsPropAfterMemo(rws, cfg) == rws

\* The CSVData after CSVTable has rendered with it and the sort cfg.
rendered(data, cfg) ==
    [data EXCEPT !.rows = rowsPropAfterMemo(data.rows, cfg)]

\* the quotient rounded down, not up
totalPagesOf_Floor(rowCount, perPage) == rowCount \div perPage

\* Math.ceil(sortedRows.length / rowsPerPage)
totalPagesOf(rowCount, perPage) == (rowCount + perPage - 1) \div perPage

\* sortedRows.slice(startIndex, endIndex)
slice(s, startIndex, endIndex) ==
    SubSeq(s, startIndex + 1, IF endIndex < Len(s) THEN endIndex ELSE Len(s))

DefaultRowsPerPage == 20

RowsPerPageOptions == {10, 20, 50, 100}

\* handleSort with the descending state toggling back to ascending
handleSortNext_TwoState(prev, key) ==
    IF prev # NoSort /\ prev.key = key
    THEN IF prev.direction = "asc"
         THEN [key |-> key, direction |-> "desc"]
         ELSE [key |-> key, direction |-> "asc"]
    ELSE [key |-> key, direction |-> "asc"]

\* The updater handleSort gives setSortConfig
handleSortNext(prev, key) ==
    IF prev # NoSort /\ prev.key = key
    THEN IF prev.direction = "asc"
         THEN [key |-> key, direction |-> "desc"]
         ELSE NoSort
    ELSE [key |-> key, direction |-> "asc"]

\* The updater toggleColumn gives setVisibleColumns
toggleColumnNext(prev, header) ==
    IF header \in prev THEN prev \ {header} ELSE prev \cup {header}

\* The updater toggleAllColumns gives setVisibleColumns
toggleAllColumnsNext(prev, hdrs) ==
    IF Cardinality(prev) = Len(hdrs) THEN {} ELSE {hdrs[k] : k \in 1..Len(hdrs)}

\* headers.filter((h) => visibleColumns.has(h))
filteredHeadersOf(hdrs, visible) ==
    LET shown(h) == h \in visible IN SelectSeq(hdrs, shown)

-----------------------------------------------------------------------------
(* SpecLine: parseCSVLine, one loop iteration per step *)

MaxLineLen == 5

LineChars == {"a", SP, Delimiter, DQ, NL}

BoundedLines == UNION {[1..n -> LineChars] : n \in 0..MaxLineLen}

\* "He said ""hi""" with its surrounding quotes
HeSaidLine ==
    <<DQ, "H", "e", SP, "s", "a", "i", "d", SP, DQ, DQ, "h", "i", DQ, DQ, DQ>>

HeSaidValue == <<"H", "e", SP, "s", "a", "i", "d", SP, DQ, "h", "i", DQ>>

\* a;"b<newline>c;d";e as one logical row line
JoinedExampleLine ==
    <<"a", Delimiter, DQ, "b", NL, "c", Delimiter, "d", DQ, Delimiter, "e">>

ScanLines == BoundedLines \cup {HeSaidLine, JoinedExampleLine}

TokIdle ==
    /\ tokLine = <<>>
    /\ tokI = 0
    /\ current = <<>>
    /\ insideQuotes = FALSE
    /\ result = <<>>
    /\ tokPc = "idle"

ParseIdle ==
    /\ text = <<>>
    /\ lines = <<>>
    /\ headers = <<>>
    /\ rows = <<>>
    /\ rowI = 0
    /\ parsePc = "idle"

UIIdle ==
    /\ csvData = NoData
    /\ loading = FALSE
    /\ error = NoError
    /\ pending = <<>>
    /\ sortConfig = NoSort
    /\ currentPage = 1
    /\ rowsPerPage = DefaultRowsPerPage
    /\ visibleColumns = {}

InitLine ==
    /\ tokLine \in ScanLines
    /\ tokI = 0
    /\ current = <<>>
    /\ insideQuotes = FALSE
    /\ result = <<>>
    /\ tokPc = "scan"
    /\ ParseIdle
    /\ UIIdle

TokStep ==
    /\ tokPc = "scan"
    /\ tokI < Len(tokLine)
    /\ LET st == parseCSVLineStep(tokLine, Delimiter,
                                  TokState(tokI, current, insideQuotes, result))
       IN  /\ tokI' = st.i
           /\ current' = st.current
           /\ insideQuotes' = st.insideQuotes
           /\ result' = st.result
    /\ UNCHANGED <<tokLine, tokPc, parseVars, upVars, tableVars>>

TokFinish ==
    /\ tokPc = "scan"
    /\ tokI >= Len(tokLine)
    /\ result' = parseCSVLineEnd(TokState(tokI, current, insideQuotes, result))
    /\ tokPc' = "done"
    /\ UNCHANGED <<tokLine, tokI, current, insideQuotes, parseVars, upVars, tableVars>>

NextLine == TokStep \/ TokFinish

SpecLine == InitLine /\ [][NextLine]_vars

-----------------------------------------------------------------------------
(* SpecParse: parseCSV, one iteration of its while loop per step *)

MaxTextLen == 5

TextChars == {"a", "b", SP, Delimiter, DQ, NL}

BoundedTexts == UNION {[1..n -> TextChars] : n \in 0..MaxTextLen}

\* Header lines with pairwise distinct names: 1, 2, 3 and 4 columns, one quoted.
DistinctHeaderLines ==
    { <<"h">>,
      <<"h", Delimiter, "k">>,
      <<"h", Delimiter, "k", Delimiter, "m">>,
      <<DQ, "h", DQ, Delimiter, SP, "k", Delimiter, "m">>,
      <<"h", Delimiter, "k", Delimiter, "m", Delimiter, "n">> }

\* Header lines that repeat a name (a trailing delimiter repeats the empty name).
RepeatingHeaderLines ==
    { <<"h", Delimiter, "h", Delimiter, "h">>,
      <<"h", Delimiter, "k", Delimiter, Delimiter>> }

\* Header lines with the name __proto__, alone and with another name.
ProtoHeaderLines == { ProtoKey, ProtoKey \o <<Delimiter, "k">> }

ShapeWords == { <<"a">>, <<"x", "y">> }

\* The data record  a;"b<newline>c;d";e  for field texts a, b, c, d, e
ShapeRecord(a, b, c, d, e) ==
    a \o <<Delimiter, DQ>> \o b \o <<NL>> \o c \o <<Delimiter>> \o d
      \o <<DQ, Delimiter>> \o e

ShapeFields(a, b, c, d, e) ==
    <<a, b \o <<NL>> \o c \o <<Delimiter>> \o d, e>>

ShapeTexts ==
    { hl \o <<NL>> \o ShapeRecord(w[1], w[2], w[3], w[4], w[5]) :
        hl \in DistinctHeaderLines \cup RepeatingHeaderLines \cup ProtoHeaderLines,
        w \in [1..5 -> ShapeWords] }

ParseTexts == BoundedTexts \cup ShapeTexts

InitParse ==
    /\ text \in ParseTexts
    /\ lines = <<>>
    /\ headers = <<>>
    /\ rows = <<>>
    /\ rowI = 0
    /\ parsePc = "start"
    /\ TokIdle
    /\ UIIdle

\* const lines = text.split("\n"); the empty check; the header line; let i = 1
ParseStart ==
    /\ parsePc = "start"
    /\ lines' = split(text, NL)
    /\ IF Len(lines') = 0
       THEN /\ parsePc' = "thrown"
            /\ UNCHANGED <<headers, rows, rowI>>
       ELSE /\ headers' = parseCSVLine(lines'[1], Delimiter)
            /\ rows' = <<>>
            /\ rowI' = 1
            /\ parsePc' = "loop"
    /\ UNCHANGED <<text, tokVars, upVars, tableVars>>

ParseRow ==
    /\ parsePc = "loop"
    /\ rowI < Len(lines)
    /\ LET it == parseCSVIteration(lines, headers, rows, rowI)
       IN  /\ rows' = it.rows
           /\ rowI' = it.i
    /\ UNCHANGED <<text, lines, headers, parsePc, tokVars, upVars, tableVars>>

ParseReturn ==
    /\ parsePc = "loop"
    /\ rowI >= Len(lines)
    /\ parsePc' = "done"
    /\ UNCHANGED <<text, lines, headers, rows, rowI, tokVars, upVars, tableVars>>

NextParse == ParseStart \/ ParseRow \/ ParseReturn

SpecParse == InitParse /\ [][NextParse]_vars

-----------------------------------------------------------------------------
(* Spec: the uploader and the table *)

MaxInFlight == 2

WrongExtensionMessage == "Please upload a CSV file"
NoDataRowsMessage == "CSV file contains no data rows"
ParseFailedMessage == "Failed to parse CSV file"
\* the message of the Error a failed file.text() rejects with
ReadErrorMessage == "The file could not be read"

\* the name of a method every object inherits
ConstructorKey == <<"c", "o", "n", "s", "t", "r", "u", "c", "t", "o", "r">>

\* n;constructor / b;x / A;y / a;z : two columns, three rows, A and a equal
\* when case-folded
SmallText ==
    <<"n", Delimiter>> \o ConstructorKey
        \o <<NL, "b", Delimiter, "x", NL, "A", Delimiter, "y", NL, "a", Delimiter, "z">>

\* h;k and two lines of blank fields: no row survives
NoRowsText == <<"h", Delimiter, "k", NL, SP, Delimiter, SP, NL, Delimiter>>

\* one column n and the given number of rows c, a, b, c, a, b, ...
RECURSIVE BigLines(_)
BigLines(n) ==
    IF n = 0 THEN <<"n">>
    ELSE BigLines(n - 1) \o <<NL, <<"a", "b", "c">>[((n + 1) % 3) + 1]>>

\* 45 rows: 3 pages of 20, 5 pages of 10
BigText == BigLines(45)

\* __proto__;constructor and the rows x;b and y;a
ProtoText ==
    ProtoKey \o <<Delimiter>> \o ConstructorKey
        \o <<NL, "x", Delimiter, "b", NL, "y", Delimiter, "a">>

Files ==
    {"notes.txt", "empty.csv", "norows.csv", "small.CSV", "big.csv", "proto.csv"}

fileName(f) ==
    CASE f = "notes.txt"  -> <<"n", "o", "t", "e", "s", ".", "t", "x", "t">>
      [] f = "empty.csv"  -> <<"e", "m", "p", "t", "y", ".", "c", "s", "v">>
      [] f = "norows.csv" -> <<"n", "o", "r", "o", "w", "s", ".", "c", "s", "v">>
      [] f = "small.CSV"  -> <<"s", "m", "a", "l", "l", ".", "C", "S", "V">>
      [] f = "big.csv"    -> <<"b", "i", "g", ".", "c", "s", "v">>
      [] f = "proto.csv"  -> <<"p", "r", "o", "t", "o", ".", "c", "s", "v">>

fileText(f) ==
    CASE f = "notes.txt"  -> SmallText
      [] f = "empty.csv"  -> <<>>
      [] f = "norows.csv" -> NoRowsText
      [] f = "small.CSV"  -> SmallText
      [] f = "big.csv"    -> BigText
      [] f = "proto.csv"  -> ProtoText

\* e.target.files?.[0] when the event carries no file
NoFile == "none"

\* parseCSV(await file.text()) for each file: a table, filled once
Parsed == [f \in Files |-> parseCSV(fileText(f))] @@ <<>>

Remove(s, k) == SubSeq(s, 1, k - 1) \o SubSeq(s, k + 1, Len(s))

Mounted == csvData # NoData

TotalPages == totalPagesOf(Len(csvData.rows), rowsPerPage)

\* What the useMemo of sortedRows returns for the rows of each file that
\* parses, under each sort that can be set: a table, filled once
MemoOfParsed ==
    LET parses == {f \in Files : ~IsThrown(Parsed[f])}
        keys == UNION {{Parsed[f].headers[k] : k \in 1..Len(Parsed[f].headers)} :
                          f \in parses}
    IN  [x \in parses \X [key : keys, direction : {"asc", "desc"}] |->
            sortedRowsOf(Parsed[x[1]].rows, x[2])] @@ <<>>

\* sortedRows in the current render: [rows |-> ...], or what the sort threw
sortedRows ==
    IF sortConfig = NoSort THEN [rows |-> csvData.rows]
    ELSE IF \E f \in Files : Parsed[f] = csvData
         THEN MemoOfParsed[<<CHOOSE f \in Files : Parsed[f] = csvData, sortConfig>>]
         ELSE sortedRowsOf(csvData.rows, sortConfig)

\* visibleRows in the current render, when the sort did not throw
visibleRows ==
    slice(sortedRows.rows, (currentPage - 1) * rowsPerPage,
          (currentPage - 1) * rowsPerPage + rowsPerPage)

\* filteredHeaders in the current render
filteredHeaders == filteredHeadersOf(csvData.headers, visibleColumns)

\* {row[header]} as the child of a td: React throws on a child that is an
\* object and not an element ("Objects are not valid as a React child"); a
\* string is shown, undefined and a function show nothing
cellThrows(row, header) == "object" \in DOMAIN GetKey(row, header)

\* a cell of the table body throws
bodyThrows(rws, hdrs) ==
    \E k \in 1..Len(rws), h \in 1..Len(hdrs) : cellThrows(rws[k], hdrs[h])

\* The render of CSVTable throws: in the sort of the useMemo, or in a cell of
\* a visible row under a visible header.  Nothing in the tree catches it, so
\* React takes the whole tree down: no control is left to act on.
renderThrows(sorted, page, perPage, hdrs) ==
    \/ IsThrown(sorted)
    \/ bodyThrows(slice(sorted.rows, (page - 1) * perPage, (page - 1) * perPage + perPage),
                  hdrs)

RenderThrows ==
    /\ Mounted
    /\ renderThrows(sortedRows, currentPage, rowsPerPage, filteredHeaders)

\* CSVTable's useState initial values, for the headers it is mounted with
TableMounts(hdrs) ==
    /\ sortConfig' = NoSort
    /\ currentPage' = 1
    /\ rowsPerPage' = DefaultRowsPerPage
    /\ visibleColumns' = {hdrs[k] : k \in 1..Len(hdrs)}

\* {csvData && <CSVTable .../>} with csvData null: the table and its state are gone
TableUnmounts ==
    /\ sortConfig' = NoSort
    /\ currentPage' = 1
    /\ rowsPerPage' = DefaultRowsPerPage
    /\ visibleColumns' = {}

Init ==
    /\ csvData = NoData
    /\ loading = FALSE
    /\ error = NoError
    /\ pending = <<>>
    /\ sortConfig = NoSort
    /\ currentPage = 1
    /\ rowsPerPage = DefaultRowsPerPage
    /\ visibleColumns = {}
    /\ TokIdle
    /\ ParseIdle

\* handleFileChange up to `await file.text()`.  MaxInFlight bounds the reads
\* outstanding, so it guards only the branch that starts one.
handleFileChange(f) ==
    IF f = NoFile
    THEN UNCHANGED <<upVars, tableVars>>
    ELSE IF ~endsWith(toLowerCase(fileName(f)), <<".", "c", "s", "v">>)
    THEN /\ error' = WrongExtensionMessage
         /\ UNCHANGED <<csvData, loading, pending, tableVars>>
    ELSE /\ Len(pending) < MaxInFlight
         /\ loading' = TRUE
         /\ error' = NoError
         /\ pending' = Append(pending, f)
         /\ UNCHANGED <<csvData, tableVars>>

\* onChange of the file input, which is disabled while loading
InputChange ==
    /\ ~RenderThrows
    /\ ~loading
    /\ \E f \in Files \cup {NoFile} : handleFileChange(f)
    /\ UNCHANGED <<tokVars, parseVars>>

\* onDrop of the upload area, which calls handleFileChange whatever loading is
Drop ==
    /\ ~RenderThrows
    /\ \E f \in Files : handleFileChange(f)
    /\ UNCHANGED <<tokVars, parseVars>>

\* handleFileChange from the text on: parse, install or report, finally.
\* After a render has thrown the component is unmounted and its setters do
\* nothing.
FileTextResolves ==
    /\ \E k \in 1..Len(pending) :
        LET data == Parsed[pending[k]]
        IN  /\ pending' = Remove(pending, k)
            /\ IF RenderThrows
               THEN UNCHANGED <<csvData, loading, error, tableVars>>
               ELSE /\ loading' = FALSE
                    /\ IF IsThrown(data)
                       THEN /\ error' = data.thrown
                            /\ UNCHANGED <<csvData, tableVars>>
                       ELSE IF Len(data.rows) = 0
                       THEN /\ error' = NoDataRowsMessage
                            /\ UNCHANGED <<csvData, tableVars>>
                       ELSE /\ UNCHANGED error
                            /\ IF Mounted
                               THEN /\ UNCHANGED tableVars
                                    /\ csvData' = rendered(data, sortConfig)
                               ELSE /\ TableMounts(data.headers)
                                    /\ csvData' = rendered(data, NoSort)
    /\ UNCHANGED <<tokVars, parseVars>>

\* file.text() rejects: the catch block and finally
FileTextRejects ==
    /\ \E k \in 1..Len(pending) :
        /\ pending' = Remove(pending, k)
        /\ IF RenderThrows
           THEN UNCHANGED <<loading, error>>
           ELSE /\ \E message \in {ReadErrorMessage, ParseFailedMessage} :
                       error' = message
                /\ loading' = FALSE
    /\ UNCHANGED <<csvData, tableVars, tokVars, parseVars>>

\* The Clear button, shown with the table
HandleClear ==
    /\ ~RenderThrows
    /\ Mounted
    /\ csvData' = NoData
    /\ error' = NoError
    /\ TableUnmounts
    /\ UNCHANGED <<loading, pending, tokVars, parseVars>>

\* A checkbox of the column selector: one per header
ToggleColumn ==
    /\ ~RenderThrows
    /\ Mounted
    /\ \E k \in 1..Len(csvData.headers) :
        visibleColumns' = toggleColumnNext(visibleColumns, csvData.headers[k])
    /\ UNCHANGED <<sortConfig, currentPage, rowsPerPage, upVars, tokVars, parseVars>>

ToggleAllColumns ==
    /\ ~RenderThrows
    /\ Mounted
    /\ visibleColumns' = toggleAllColumnsNext(visibleColumns, csvData.headers)
    /\ UNCHANGED <<sortConfig, currentPage, rowsPerPage, upVars, tokVars, parseVars>>

\* A click on a column header: one th per visible header
HandleSort ==
    /\ ~RenderThrows
    /\ Mounted
    /\ \E k \in 1..Len(csvData.headers) :
        /\ csvData.headers[k] \in visibleColumns
        /\ sortConfig' = handleSortNext(sortConfig, csvData.headers[k])
    /\ currentPage' = 1
    /\ csvData' = rendered(csvData, sortConfig')
    /\ UNCHANGED <<rowsPerPage, visibleColumns, loading, error, pending,
                   tokVars, parseVars>>

\* setCurrentPage((prev) => Math.max(1, prev - 1))
handlePreviousPageNext(prev) == IF prev - 1 > 1 THEN prev - 1 ELSE 1

\* setCurrentPage((prev) => Math.min(totalPages, prev + 1))
handleNextPageNext(prev, totalPages) ==
    IF prev + 1 < totalPages THEN prev + 1 ELSE totalPages

HandlePreviousPage ==
    /\ ~RenderThrows
    /\ Mounted
    /\ currentPage' = handlePreviousPageNext(currentPage)
    /\ UNCHANGED <<sortConfig, rowsPerPage, visibleColumns, upVars, tokVars, parseVars>>

HandleNextPage ==
    /\ ~RenderThrows
    /\ Mounted
    /\ currentPage' = handleNextPageNext(currentPage, TotalPages)
    /\ UNCHANGED <<sortConfig, rowsPerPage, visibleColumns, upVars, tokVars, parseVars>>

\* a page-size change that leaves the page where it is
HandleRowsPerPageChange_KeepsPage ==
    /\ ~RenderThrows
    /\ Mounted
    /\ \E n \in RowsPerPageOptions : rowsPerPage' = n
    /\ UNCHANGED <<currentPage, sortConfig, visibleColumns, upVars, tokVars, parseVars>>

\* The select of the page size: handleRowsPerPageChange
HandleRowsPerPageChange ==
    /\ ~RenderThrows
    /\ Mounted
    /\ \E n \in RowsPerPageOptions : rowsPerPage' = n
    /\ currentPage' = 1
    /\ UNCHANGED <<sortConfig, visibleColumns, upVars, tokVars, parseVars>>

Next ==
    \/ InputChange
    \/ Drop
    \/ FileTextResolves
    \/ FileTextRejects
    \/ HandleClear
    \/ ToggleColumn
    \/ ToggleAllColumns
    \/ HandleSort
    \/ HandlePreviousPage
    \/ HandleNextPage
    \/ HandleRowsPerPageChange

Spec == Init /\ [][Next]_vars

\* Spec with every pending file.text() eventually resolving or rejecting
SpecFair == Spec /\ WF_vars(FileTextResolves \/ FileTextRejects)

-----------------------------------------------------------------------------
(* SpecTable: CSVTable over one Dataset, mounted with its initial state,   *)
(* and the handlers of its controls.                                       *)

NameColumn == <<"N", "a", "m", "e">>
DateColumn == <<"D", "a", "t", "e">>

MaxTableRows == 2

Alice == <<"A", "l", "i", "c", "e">>
TableRow(name, date) == (NameColumn :> name) @@ (DateColumn :> date)

Jan == <<"J", "a", "n">>
Feb == <<"F", "e", "b">>

\* Alice and alice are equal when case-folded; one Name is empty
RowPool ==
    <<TableRow(Alice, Jan),
      TableRow(<<"b", "o", "b">>, Jan),
      TableRow(<<"A", "L", "I", "C", "E", "X">>, Feb),
      TableRow(toLowerCase(Alice), Feb),
      TableRow(<<>>, Jan)>>

TableOf(rws) == [headers |-> <<NameColumn, DateColumn>>, rows |-> rws]

\* rows Alice, bob, ALICEX
ExampleDataset == TableOf(SubSeq(RowPool, 1, 3))

\* 23 rows: the pool over and over
PagedDataset == TableOf([k \in 1..23 |-> RowPool[((k - 1) % Len(RowPool)) + 1]])

TableDatasets ==
    {TableOf(rws) : rws \in UNION {[1..n -> {RowPool[k] : k \in 1..Len(RowPool)}] :
                                      n \in 1..MaxTableRows}}
        \cup {ExampleDataset, PagedDataset}

\* the table as it mounts on a Dataset just installed (lines 17-24)
InitTable ==
    /\ csvData \in TableDatasets
    /\ loading = FALSE
    /\ error = NoError
    /\ pending = <<>>
    /\ sortConfig = NoSort
    /\ currentPage = 1
    /\ rowsPerPage = DefaultRowsPerPage
    /\ visibleColumns = {csvData.headers[k] : k \in 1..Len(csvData.headers)}
    /\ TokIdle
    /\ ParseIdle

NextTable ==
    \/ ToggleColumn
    \/ ToggleAllColumns
    \/ HandleSort
    \/ HandlePreviousPage
    \/ HandleNextPage
    \/ HandleRowsPerPageChange

SpecTable == InitTable /\ [][NextTable]_vars

-----------------------------------------------------------------------------
(* Properties of the parser *)

Range(s) == {s[k] : k \in DOMAIN s}

Even(n) == n % 2 = 0

Min(S) == CHOOSE n \in S : \A m \in S : n <= m

\* the number of quote characters among the first k characters of ln
QuotesIn(ln, k) == Cardinality({j \in 1..k : ln[j] = DQ})

\* the delimiters among the first k characters that an even number of quotes precedes
OpenDelimiters(ln, k) ==
    {j \in 1..k : ln[j] = Delimiter /\ Even(QuotesIn(ln, j - 1))}

C2_Scan ==
    tokPc \in {"scan", "done"} =>
        /\ insideQuotes = ~Even(QuotesIn(tokLine, tokI))
        /\ Len(result) = Cardinality(OpenDelimiters(tokLine, tokI))
                           + (IF tokPc = "done" THEN 1 ELSE 0)
        /\ (tokPc = "done" /\ tokLine = HeSaidLine) => result = <<HeSaidValue>>

C2_Step ==
    (tokPc = "scan" /\ tokI < Len(tokLine)) =>
        LET char    == tokLine[tokI + 1]
            escaped == /\ char = DQ
                       /\ insideQuotes
                       /\ tokI + 2 <= Len(tokLine)
                       /\ tokLine[tokI + 2] = DQ
        IN  /\ escaped =>
                /\ current' = Append(current, DQ)
                /\ tokI' = tokI + 2
                /\ insideQuotes' = insideQuotes
                /\ result' = result
            /\ (char = DQ /\ ~escaped) =>
                /\ insideQuotes' = ~insideQuotes
                /\ current' = current
                /\ tokI' = tokI + 1
                /\ result' = result
            /\ (char = Delimiter /\ ~insideQuotes) =>
                /\ result' = Append(result, trim(current))
                /\ current' = <<>>
                /\ tokI' = tokI + 1
                /\ insideQuotes' = insideQuotes
            /\ (char = Delimiter /\ insideQuotes) =>
                /\ current' = Append(current, Delimiter)
                /\ result' = result
                /\ tokI' = tokI + 1
                /\ insideQuotes' = insideQuotes

\* C2: in parseCSVLine a quote inside quotes that another quote follows emits one
\* quote and consumes both characters, any other quote toggles insideQuotes and
\* emits nothing, a delimiter outside quotes closes the field and one inside quotes
\* is appended; so insideQuotes is the parity of the quotes scanned, the fields
\* returned are 1 + the delimiters met outside quotes, and "He said ""hi"""
\* yields He said "hi".
C2_Tokenization == []C2_Scan /\ [][C2_Step]_vars

C2_Witness ==
    /\ tokPc = "done"
    /\ tokLine = HeSaidLine
    /\ result = <<HeSaidValue>>

\* the quote characters of raw lines s .. n-1 (0-based), newlines adding none
QuoteTotal(lns, s, n) ==
    Cardinality(UNION {{<<l, j>> : j \in {c \in 1..Len(lns[l]) : lns[l][c] = DQ}} :
                         l \in (s + 1)..n})

\* where the logical row line that starts at raw line s ends: the first n > s
\* with an even number of quotes in lines s .. n-1, or the end of the input
NextCut(lns, s) ==
    LET closed == {n \in (s + 1)..Len(lns) : Even(QuoteTotal(lns, s, n))}
    IN  IF closed = {} THEN Len(lns) ELSE Min(closed)

RECURSIVE JoinLines(_, _, _)
JoinLines(lns, s, n) ==
    IF s + 1 = n THEN lns[n]
    ELSE JoinLines(lns, s, n - 1) \o <<NL>> \o lns[n]

\* the logical row lines from raw line s on, in input order
RECURSIVE LogicalLines(_, _)
LogicalLines(lns, s) ==
    IF s >= Len(lns) THEN <<>>
    ELSE <<JoinLines(lns, s, NextCut(lns, s))>> \o LogicalLines(lns, NextCut(lns, s))

LastPosition(hdrs, h) ==
    CHOOSE k \in 1..Len(hdrs) : hdrs[k] = h /\ \A j \in (k + 1)..Len(hdrs) : hdrs[j] # h

\* the Row of a logical row line: for each header name its field, "" when missing
RowOf(hdrs, ll) ==
    LET fields == parseCSVLine(ll, Delimiter)
    IN  [h \in Range(hdrs) |->
            IF LastPosition(hdrs, h) <= Len(fields)
            THEN fields[LastPosition(hdrs, h)]
            ELSE <<>>]

Blank(s) == \A k \in 1..Len(s) : s[k] \in WhiteSpace

KeptLine(hdrs, ll) ==
    /\ ~Blank(ll)
    /\ \E h \in Range(hdrs) : ~Blank(RowOf(hdrs, ll)[h])

KeptLines(lns, hdrs) ==
    LET keep(ll) == KeptLine(hdrs, ll)
    IN  SelectSeq(LogicalLines(lns, 1), keep)

ExpectedRows(lns, hdrs) ==
    [j \in 1..Len(KeptLines(lns, hdrs)) |-> RowOf(hdrs, KeptLines(lns, hdrs)[j])]

AllHeaderLines == DistinctHeaderLines \cup RepeatingHeaderLines \cup ProtoHeaderLines

\* C1 (as claimed): for a text made of a header line and the record a;"b<newline>c;d";e,
\* readCSVRow joins the two raw lines of the record into one logical row line,
\* which tokenizes to the fields a, b<newline>c;d, e; under every header line
\* parseCSV yields one row, not two, whose k-th header has the k-th of these
\* fields.
C1_QuotedFieldIsOneRow ==
    (parsePc = "done" /\ text \in ShapeTexts) =>
        \A hl \in AllHeaderLines, w \in [1..5 -> ShapeWords] :
            text = hl \o <<NL>> \o ShapeRecord(w[1], w[2], w[3], w[4], w[5]) =>
                LET read   == readCSVRow(lines, 1, Delimiter)
                    fields == ShapeFields(w[1], w[2], w[3], w[4], w[5])
                IN  /\ Len(lines) = 3
                    /\ read.nextIndex = 3
                    /\ read.line = ShapeRecord(w[1], w[2], w[3], w[4], w[5])
                    /\ parseCSVLine(read.line, Delimiter) = fields
                    /\ Len(rows) = 1
                    /\ \A k \in 1..Len(headers) :
                           k <= 3 =>
                               /\ headers[k] \in DOMAIN rows[1]
                               /\ rows[1][headers[k]] = fields[k]

\* C3 (as claimed): every row parseCSV appends has exactly headers.length keys,
\* one for every header, and the value of the k-th header is the k-th field of
\* the logical row line, or the empty string when the line has fewer fields.
C3_RowsFullyPadded ==
    [][(parsePc = "loop" /\ Len(rows') = Len(rows) + 1) =>
        LET row    == rows'[Len(rows')]
            values == parseCSVLine(readCSVRow(lines, rowI, Delimiter).line, Delimiter)
        IN  /\ Cardinality(DOMAIN row) = Len(headers)
            /\ \A k \in 1..Len(headers) :
                /\ headers[k] \in DOMAIN row
                /\ row[headers[k]] = ValueOrEmpty(values, k - 1)]_vars

\* C4 (as claimed): the rows parseCSV returns are the Rows of the logical row
\* lines after the header line that are not blank and have a non-blank value
\* under some header, in input order.
C4_RowsAreKeptLines ==
    parsePc = "done" => rows = ExpectedRows(lines, headers)

\* The stepwise loops and the operators used by the uploader agree.
ParseAgrees ==
    /\ parsePc = "done" => [headers |-> headers, rows |-> rows] = parseCSV(text)
    /\ tokPc = "done" => result = parseCSVLine(tokLine, Delimiter)

-----------------------------------------------------------------------------
(* Properties of the uploader and the table *)

\* C5 (as claimed): an upload whose text is empty ends with the error "CSV file is
\* empty" and installs nothing, and "CSV file contains no data rows" is the
\* outcome only of a text that is not empty and has no valid row.
C5_EmptyFileReported ==
    [][\A k \in 1..Len(pending) :
        /\ (/\ pending' = Remove(pending, k)
            /\ fileText(pending[k]) = <<>>
            /\ error' \notin {ReadErrorMessage, ParseFailedMessage})
           => (error' = EmptyFileMessage /\ csvData' = csvData)
        /\ (/\ pending' = Remove(pending, k)
            /\ error' = NoDataRowsMessage)
           => fileText(pending[k]) # <<>>]_vars

\* C6 (as claimed): with no upload in flight an error is never shown next to an
\* installed Dataset, and an installed Dataset has at least one row.
C6_NeverHalfLoaded ==
    /\ (pending = <<>> /\ error # NoError) => csvData = NoData
    /\ csvData # NoData => Len(csvData.rows) >= 1

\* the three-state toggle as a transition table
ToggleTable(prev, c) ==
    CASE prev = NoSort -> [key |-> c, direction |-> "asc"]
      [] prev # NoSort /\ prev.key # c -> [key |-> c, direction |-> "asc"]
      [] prev # NoSort /\ prev.key = c /\ prev.direction = "asc" ->
            [key |-> c, direction |-> "desc"]
      [] prev # NoSort /\ prev.key = c /\ prev.direction = "desc" -> NoSort

\* the header names of the files that parse
HeaderNames ==
    UNION {Range(Parsed[f].headers) : f \in {g \in Files : ~IsThrown(Parsed[g])}}

C7_States ==
    /\ \/ sortConfig = NoSort
       \/ /\ DOMAIN sortConfig = {"key", "direction"}
          /\ sortConfig.key \in HeaderNames
          /\ sortConfig.direction \in {"asc", "desc"}
    /\ \A c \in HeaderNames :
        /\ handleSortNext(sortConfig, c) = ToggleTable(sortConfig, c)
        /\ sortConfig = NoSort =>
            handleSortNext(handleSortNext(handleSortNext(sortConfig, c), c), c) = NoSort

C7_Click ==
    (csvData # NoData /\ csvData' # NoData /\ sortConfig' # sortConfig) =>
        \E k \in 1..Len(csvData.headers) :
            /\ csvData.headers[k] \in visibleColumns
            /\ sortConfig' = ToggleTable(sortConfig, csvData.headers[k])

\* C7: a click on column c turns no sort, or a sort on another column, into
\* (c, asc), (c, asc) into (c, desc) and (c, desc) into no sort; the sort state
\* is always none or (column, asc | desc) and changes only this way while the
\* table is shown; three clicks on one column from unsorted give unsorted.
C7_ThreeStateToggle == []C7_States /\ [][C7_Click]_vars

C7_Witness ==
    /\ csvData # NoData
    /\ sortConfig # NoSort
    /\ sortConfig.direction = "desc"
    /\ handleSortNext(sortConfig, sortConfig.key) = NoSort

C8_Dataset ==
    csvData # NoData =>
        \E f \in Files :
            /\ csvData = Parsed[f]
            /\ sortConfig = NoSort =>
                sortedRowsOf(csvData.rows, sortConfig) = [rows |-> Parsed[f].rows]

C8_Frame ==
    (Len(pending') >= Len(pending) /\ csvData' # NoData) => csvData' = csvData

\* C8: the Dataset shown is always the one parseCSV returned for an uploaded file,
\* rows in parse order; no step but an upload's end or Clear changes it (sort
\* clicks, page changes, page-size changes and column toggles do not); with no sort
\* set the rows displayed are the rows in parse order.
C8_DatasetNotMutated == []C8_Dataset /\ [][C8_Frame]_vars

C8_Witness ==
    /\ csvData = Parsed["small.CSV"]
    /\ sortConfig # NoSort
    /\ ~RenderThrows
    /\ sortedRows.rows # csvData.rows

\* C9 (as claimed): while a Dataset is installed, 1 <= currentPage <= totalPages.
C9_PageInRange ==
    csvData # NoData => (1 <= currentPage /\ currentPage <= TotalPages)

\* C10 (as claimed): every step that installs a new Dataset leaves the table with
\* no sort, page 1, the default page size and every header of the new Dataset
\* visible.
C10_InstallResetsTable ==
    [][(csvData' # NoData /\ csvData' # csvData) =>
        /\ sortConfig' = NoSort
        /\ currentPage' = 1
        /\ rowsPerPage' = DefaultRowsPerPage
        /\ visibleColumns' = Range(csvData'.headers)]_vars

-----------------------------------------------------------------------------
(* Properties of the table state engine *)

\* the elements of s at the indices in K, in the order of s
Restrict(s, K) ==
    [j \in 1..Cardinality(K) |->
        s[CHOOSE k \in K : Cardinality({m \in K : m <= k}) = j]]

\* the value of a cell, a missing cell being the empty string
cellOf(row, column) == IF column \in DOMAIN row THEN row[column] ELSE <<>>

\* q occurs in c as a run of consecutive characters, letter case ignored
OccursIn(q, c) ==
    \E i \in 0..Len(c) : \E j \in i..Len(c) :
        SubSeq(toLowerCase(c), i + 1, j) = toLowerCase(q)

\* the queries a user filters by: none, a blank one, and two that differ in
\* case from the cells
Queries == {<<>>, <<SP>>, <<"a", "l", "i", "c">>, <<"J">>}

Dates == {Jan, Feb}

\* no date to filter by
NoDate == <<>>

\* The filters a user may ask of a table with these headers: a query for each
\* column and a date or none
FilterRequests(hdrs) ==
    [text : [{hdrs[k] : k \in 1..Len(hdrs)} -> Queries], date : Dates \cup {NoDate}]

\* the row passes the date filter and every active text filter
Passes(row, filter) ==
    /\ filter.date # NoDate => cellOf(row, DateColumn) = filter.date
    /\ \A column \in DOMAIN filter.text :
           \/ Blank(filter.text[column])
           \/ OccursIn(filter.text[column], cellOf(row, column))

C11_Filtered(rws, filter) ==
    Restrict(rws, {k \in 1..Len(rws) : Passes(rws[k], filter)})

\* the elements of s at the 0-based indices [(p-1)*n, p*n) that exist
PageOf(s, p, n) ==
    LET first == (p - 1) * n
        count == IF Len(s) - first < 0 THEN 0
                 ELSE IF Len(s) - first < n THEN Len(s) - first ELSE n
    IN  [j \in 1..count |-> s[first + j]]

NamesOf(rws) == [k \in 1..Len(rws) |-> cellOf(rws[k], NameColumn)]

C11_PipelineOf(shown, filter) ==
    /\ shown = PageOf(sortedRowsOf(C11_Filtered(csvData.rows, filter), sortConfig).rows,
                      currentPage, rowsPerPage)
    \* rows Alice, bob, ALICEX under the query alic
    /\ ( /\ csvData = ExampleDataset
         /\ filter.text[NameColumn] = <<"a", "l", "i", "c">>
         /\ Blank(filter.text[DateColumn])
         /\ filter.date = NoDate
         /\ sortConfig = NoSort
         /\ currentPage = 1 )
           => NamesOf(shown) = <<Alice, <<"A", "L", "I", "C", "E", "X">>>>

\* C11 (as claimed): whatever date and text filters the user asks for, the
\* rows the table shows are the page slice of the sorted rows that pass the
\* date filter and every active text filter (case-insensitive substring, a
\* blank query no constraint); Alice, bob, ALICEX under the query alic show
\* Alice and ALICEX in that order.
C11_FilterSortSlice ==
    (Mounted /\ ~RenderThrows) =>
        \A filter \in FilterRequests(csvData.headers) :
            C11_PipelineOf(visibleRows, filter)

\* the pages 1..n of s, one after the other
RECURSIVE PagesJoined(_, _, _)
PagesJoined(s, n, perPage) ==
    IF n = 0 THEN <<>>
    ELSE PagesJoined(s, n - 1, perPage) \o slice(s, (n - 1) * perPage, n * perPage)

\* C12: while the table is shown (mounted, its render not having thrown),
\* totalPages is ceil(rowCount / rowsPerPage) and
\* at least 1; page p shows the elements of the sorted rows at the 0-based
\* indices [(p-1)*rowsPerPage, p*rowsPerPage) that exist; every page
\* 1..totalPages is non-empty and the pages in order give every row once; 45
\* rows at page size 20 are 3 pages, the third of 5 rows.
C12_Pages ==
    (Mounted /\ ~RenderThrows) =>
        LET n == Len(sortedRows.rows) IN
        /\ TotalPages >= 1
        /\ TotalPages * rowsPerPage >= n
        /\ (TotalPages - 1) * rowsPerPage < n
        /\ visibleRows = PageOf(sortedRows.rows, currentPage, rowsPerPage)
        /\ \A p \in 1..TotalPages :
               /\ slice(sortedRows.rows, (p - 1) * rowsPerPage, p * rowsPerPage)
                      = PageOf(sortedRows.rows, p, rowsPerPage)
               /\ PageOf(sortedRows.rows, p, rowsPerPage) # <<>>
        /\ PagesJoined(sortedRows.rows, TotalPages, rowsPerPage) = sortedRows.rows
        /\ (n = 45 /\ rowsPerPage = 20) =>
               /\ TotalPages = 3
               /\ Len(slice(sortedRows.rows, 40, 60)) = 5

C12_Witness ==
    /\ Mounted
    /\ ~RenderThrows
    /\ Len(csvData.rows) = 45
    /\ rowsPerPage = 20
    /\ sortConfig # NoSort
    /\ currentPage = 3
    /\ Len(visibleRows) = 5

\* C13 (as claimed): in every state the visible columns are headers of the
\* installed Dataset, and the headers rendered are the Dataset headers, in header
\* order, that are in the visible set.
C13_VisibleAreHeaders ==
    Mounted =>
        /\ visibleColumns \subseteq Range(csvData.headers)
        /\ filteredHeadersOf(csvData.headers, visibleColumns) =
               Restrict(csvData.headers,
                        {k \in 1..Len(csvData.headers) : csvData.headers[k] \in visibleColumns})

\* a step that changes the visible columns of a table that stays mounted
ColumnsToggled ==
    /\ Mounted
    /\ csvData' # NoData
    /\ visibleColumns' # visibleColumns

C14_Step ==
    /\ sortConfig' # sortConfig => currentPage' = 1
    /\ rowsPerPage' # rowsPerPage => currentPage' = 1
    /\ ColumnsToggled =>
           /\ currentPage' = currentPage
           /\ rowsPerPage' = rowsPerPage
           /\ sortConfig' = sortConfig

\* C14: every step that changes the sort state and every step that changes the
\* page size sets the page to 1; a step that toggles columns leaves the page,
\* the page size and the sort state as they are; the page size is always one of
\* 10, 20, 50, 100.
C14_PageResets == [](rowsPerPage \in {10, 20, 50, 100}) /\ [][C14_Step]_vars

\* a table on which all four handlers have acted: sorted, columns hidden, another
\* page size, and more than one page while the page is 1
C14_Witness ==
    /\ Mounted
    /\ sortConfig # NoSort
    /\ visibleColumns # Range(csvData.headers)
    /\ rowsPerPage = 10
    /\ TotalPages > 1
    /\ currentPage = 1

\* the case-folded value of the key column, a missing cell as the empty string
FoldedKey(row, key) == toLowerCase(cellOf(row, key))

\* row j of rws is shown before row i: its folded key comes first in the
\* direction of the sort, or the keys are equal and j is the earlier row
ShownBefore(rws, cfg, j, i) ==
    LET c == localeCompare(FoldedKey(rws[j], cfg.key), FoldedKey(rws[i], cfg.key))
    IN  \/ cfg.direction = "asc" /\ c < 0
        \/ cfg.direction = "desc" /\ c > 0
        \/ c = 0 /\ j < i

\* where row i of rws is shown
ShownAt(rws, cfg, i) ==
    1 + Cardinality({j \in 1..Len(rws) : ShownBefore(rws, cfg, j, i)})

C15_Ordered(rws, cfg, shown) ==
    /\ Len(shown) = Len(rws)
    \* a permutation that keeps rows of equal folded key in their order
    /\ \A i \in 1..Len(rws) : shown[ShownAt(rws, cfg, i)] = rws[i]
    \* adjacent rows in the order of the direction
    /\ \A k \in 1..(Len(shown) - 1) :
           LET c == localeCompare(FoldedKey(shown[k], cfg.key),
                                  FoldedKey(shown[k + 1], cfg.key))
           IN  IF cfg.direction = "asc" THEN c <= 0 ELSE c >= 0

\* C15 (as claimed): when a sort (key, direction) is set, the render gives
\* sorted rows (the sort does not throw), they are a permutation of the Dataset
\* rows, adjacent rows are in non-decreasing (asc) or non-increasing (desc)
\* order of the case-folded value of the key column, an empty or missing cell
\* counting as the empty string, and rows of equal folded key keep their
\* original relative order in both directions.
C15_StableSort ==
    (Mounted /\ sortConfig # NoSort) =>
        /\ ~IsThrown(sortedRows)
        /\ C15_Ordered(csvData.rows, sortConfig, sortedRows.rows)

-----------------------------------------------------------------------------
(* Properties of row assembly *)

\* readCSVRow from every start index of the lines array
C16_ReadRow ==
    \A i \in 1..(Len(lines) - 1) :
        LET read == readCSVRow(lines, i, Delimiter)
        IN  /\ i < read.nextIndex
            /\ read.nextIndex <= Len(lines)
            /\ read.nextIndex = NextCut(lines, i)
            /\ read.line = JoinLines(lines, i, read.nextIndex)

\* the cursor of the parseCSV loop: it starts at 1, and an iteration moves it
\* forward, past the raw lines of the one logical row line it read
C16_Cursor ==
    /\ (parsePc = "start" /\ parsePc' = "loop") => rowI' = 1
    /\ (parsePc = "loop" /\ parsePc' = "loop") =>
           /\ rowI < rowI'
           /\ rowI' <= Len(lines)
           /\ rowI' = NextCut(lines, rowI)
    /\ (parsePc = "loop" /\ parsePc' = "done") => rowI = Len(lines)

\* the cursor is a raw line after the header, or the end of the input
C16_CursorInRange ==
    parsePc \in {"loop", "done"} => (1 <= rowI /\ rowI <= Len(lines))

\* C16: from every start index i with 1 <= i < lines.length readCSVRow returns
\* i < nextIndex <= lines.length, nextIndex the smallest index at which the
\* accumulated quote count is even or lines.length, and the line
\* lines[i..nextIndex-1] joined by newline; the cursor of the parseCSV loop goes
\* from 1 to lines.length over these cuts, strictly forward at every iteration,
\* so the loop ends after fewer than lines.length iterations and every raw line
\* after the header is in exactly one logical row line.
C16_RowAssemblyProgress ==
    /\ [](parsePc \in {"loop", "done"} => C16_ReadRow)
    /\ []C16_CursorInRange
    /\ [][C16_Cursor]_vars

\* the loop has read a logical row line of three raw lines and returned
C16_Witness ==
    /\ parsePc = "done"
    /\ Len(lines) >= 4
    /\ \E i \in 1..(Len(lines) - 1) :
           /\ readCSVRow(lines, i, Delimiter).nextIndex = i + 3
           /\ readCSVRow(lines, i, Delimiter).nextIndex = Len(lines)

-----------------------------------------------------------------------------
(* Properties of the uploader *)

\* C17 (as claimed): at most one upload is suspended in `await file.text()` at a
\* time, and no upload starts while loading is true.
C17_OneUploadInFlight ==
    /\ [](Len(pending) <= 1)
    /\ [][loading => Len(pending') <= Len(pending)]_vars

\* a step in which an upload finishes: its read has resolved or rejected
UploadEnds == Len(pending') < Len(pending)

\* a step in which an upload installs its Dataset
UploadSucceeds == UploadEnds /\ csvData' # NoData /\ error' = error

\* a step in which handleFileChange returns before reading
UploadRefused == pending' = pending /\ error' = WrongExtensionMessage

C18_Step ==
    /\ UploadEnds => loading' = FALSE
    /\ UploadRefused => loading' = loading
    /\ UploadSucceeds => error' = NoError

\* C18 (as claimed): an upload that ends leaves loading = false whatever its
\* outcome, an attempt refused for its extension does not change loading, and an
\* upload that installs its Dataset leaves error = null.
C18_UploadOutcome == [][C18_Step]_vars

\* Under SpecFair, loading = true is always followed by loading = false: the
\* finally block of an upload whose read has settled.
LoadingEnds == loading ~> ~loading

====
